---- MODULE Spec2Model ----
(***************************************************************************)
(* A model of the apple2go memory-management core: the mmu's page table    *)
(* and banks (src/mmu.go), the iou's soft switches (src/iou.go) and the    *)
(* keyboard latch (src/keyboard.go).  Addresses and bytes are integers;    *)
(* hexadecimal values of the source are given in comments.                 *)
(***************************************************************************)
EXTENDS Integers, Sequences, FiniteSets, TLC

VARIABLES
    switches,   \* iou.switches: the set of ioSwitch bits that are 1
    updates,    \* iou.updates: the set of pending update groups
    pages,      \* mmu.pages: the read and write bank of each run of pages
    mainRAM,    \* mmu.mainRAM, kept as the function of its non-zero bytes
    auxRAM,     \* mmu.auxRAM, same representation
    systemROM,  \* mmu.systemROM, same representation
    keydata,    \* keyboard.keydata
    keydown,    \* keyboard.keydown
    panic,      \* TRUE once the Go runtime has panicked (index out of range)
    hist        \* the operations performed, each with its result

vars == <<switches, updates, pages, mainRAM, auxRAM, systemROM, keydata, keydown, panic, hist>>

----------------------------------------------------------------------------
(* Bounds of the model *)

\* longest run recorded operation by operation in the scenario specifications
MaxTrace == 5

----------------------------------------------------------------------------
(* uint16 / byte arithmetic *)

u16(x) == x % 65536

u8(x) == x % 256

\* bit n of x
bitOf(x, n) == (x \div (2 ^ n)) % 2

\* bitTest16(v, 1<<n) of the source's helper package
bitTest16(v, n) == bitOf(v, n) = 1

----------------------------------------------------------------------------
(* Byte slices: a slice of zeroes is the empty function *)

memGet(mem, i) == IF i \in DOMAIN mem THEN mem[i] ELSE 0

memSet(mem, i, v) ==
    IF v = 0
    THEN [x \in (DOMAIN mem) \ {i} |-> mem[x]]
    ELSE [x \in (DOMAIN mem) \cup {i} |-> IF x = i THEN v ELSE mem[x]]

EmptyMem == [x \in {} |-> 0]

----------------------------------------------------------------------------
(* iou.go: switches and update groups *)

ioSwitchAUXRAMRD == "AUXRAMRD"
ioSwitchAUXRAMWRT == "AUXRAMWRT"
ioSwitchALTCHARSET == "ALTCHARSET"
ioSwitchTEXT == "TEXT"
ioSwitchMIXED == "MIXED"
ioSwitch80COL == "80COL"
ioSwitch80STORE == "80STORE"
ioSwitchPAGE2 == "PAGE2"
ioSwitchHIRES == "HIRES"
ioSwitchDHIRES == "DHIRES"
ioSwitchIOUDIS == "IOUDIS"
ioSwitchALTZP == "ALTZP"
ioSwitchLCRAMRD == "LCRAMRD"
ioSwitchLCRAMWRT == "LCRAMWRT"
ioSwitchLCBANK2 == "LCBANK2"
ioSwitchCXROM == "CXROM"
ioSwitchC3ROM == "C3ROM"
ioSwitchVBLINT == "VBLINT"
ioSwitchANNUNCIATOR0 == "ANNUNCIATOR0"
ioSwitchANNUNCIATOR1 == "ANNUNCIATOR1"
ioSwitchANNUNCIATOR2 == "ANNUNCIATOR2"
ioSwitchANNUNCIATOR3 == "ANNUNCIATOR3"
\* the count constant closing the enumeration; it names no switch
ioSwitches == "ioSwitches"

ioSwitch ==
    { ioSwitchAUXRAMRD, ioSwitchAUXRAMWRT, ioSwitchALTCHARSET, ioSwitchTEXT,
      ioSwitchMIXED, ioSwitch80COL, ioSwitch80STORE, ioSwitchPAGE2, ioSwitchHIRES,
      ioSwitchDHIRES, ioSwitchIOUDIS, ioSwitchALTZP, ioSwitchLCRAMRD,
      ioSwitchLCRAMWRT, ioSwitchLCBANK2, ioSwitchCXROM, ioSwitchC3ROM,
      ioSwitchVBLINT, ioSwitchANNUNCIATOR0, ioSwitchANNUNCIATOR1,
      ioSwitchANNUNCIATOR2, ioSwitchANNUNCIATOR3 }

updateSystemRAM == "updateSystemRAM"
updateZPSRAM == "updateZPSRAM"
updateLCRAM == "updateLCRAM"

\* a table giving every switch all three update groups
switchUpdates_allGroups(sw) == {updateSystemRAM, updateZPSRAM, updateLCRAM}

switchUpdates(sw) ==
    CASE sw \in {ioSwitchAUXRAMRD, ioSwitchAUXRAMWRT} -> {updateSystemRAM, updateLCRAM}
      [] sw \in {ioSwitch80STORE, ioSwitchPAGE2, ioSwitchHIRES} -> {updateSystemRAM}
      [] sw = ioSwitchALTZP -> {updateZPSRAM}
      [] sw \in {ioSwitchLCRAMRD, ioSwitchLCRAMWRT, ioSwitchLCBANK2} -> {updateLCRAM}
      [] OTHER -> {}

----------------------------------------------------------------------------
(* mmu.go: bank identifiers, bank types, access masks *)

bankSystemCXROM == "SystemCXROM"
bankSystemDEFROM == "SystemDEFROM"
bankZeroStackRAM == "ZeroStackRAM"
bankMainRAM == "MainRAM"
bankLangCardDX1RAM == "LangCardDX1RAM"
bankLangCardDX2RAM == "LangCardDX2RAM"
bankLangCardEFRAM == "LangCardEFRAM"
bankDisplayPage1 == "DisplayPage1"
bankDisplayPage2 == "DisplayPage2"
bankHiRes1 == "HiRes1"
bankHiRes2 == "HiRes2"
bankIOSwitches == "IOSwitches"
bankSlotROM == "SlotROM"
bankExpansionROM == "ExpansionROM"

bankIDs ==
    { bankSystemCXROM, bankSystemDEFROM, bankZeroStackRAM, bankMainRAM,
      bankLangCardDX1RAM, bankLangCardDX2RAM, bankLangCardEFRAM, bankDisplayPage1,
      bankDisplayPage2, bankHiRes1, bankHiRes2, bankIOSwitches, bankSlotROM,
      bankExpansionROM }

bankTypeMain == "main"
bankTypeAux == "aux"
bankTypes == {bankTypeMain, bankTypeAux}

read == "read"
write == "write"

\* a *bank is the pair <<typ, id>> indexing mmu.banks, or the nil pointer
BankRef(typ, id) == <<typ, id>>

nilBank == <<"nil", "nil">>

\* the zero value of the bank struct: an entry of mmu.banks no add*Bank call set
zeroBank == [size |-> 0, baseAddr |-> 0, ram |-> "nil", lo |-> 0, len |-> 0, accessor |-> "nil"]

\* addRAMBank(id, typ, ram[lo:hi], baseAddr)
addRAMBank(ram, lo, hi, baseAddr) ==
    [size |-> u16(hi - lo), baseAddr |-> baseAddr, ram |-> ram, lo |-> lo,
     len |-> hi - lo, accessor |-> "ramBankAccessor"]

\* addROMBank(id, systemROM[lo:hi], baseAddr): the same struct for both types
addROMBank(lo, hi, baseAddr) ==
    [size |-> u16(hi - lo), baseAddr |-> baseAddr, ram |-> "systemROM", lo |-> lo,
     len |-> hi - lo, accessor |-> "romBankAccessor"]

\* addIOBank(id, size, baseAddr): no memory and no accessor
addIOBank(size, baseAddr) ==
    [size |-> size, baseAddr |-> baseAddr, ram |-> "nil", lo |-> 0, len |-> 0,
     accessor |-> "nil"]

\* mmu.banks with LangCardDX1RAM registered over the bytes of LangCardDX2RAM
banks_sharedDx(typ, id) ==
    CASE id = bankIOSwitches ->
            \* iou.Init installs the accessor in the main entry only
            IF typ = bankTypeMain
            THEN [addIOBank(256, 49152) EXCEPT !.accessor = "ioSwitchBankAccessor"]
            ELSE addIOBank(256, 49152)                          \* 0x0100, 0xc000
      [] id = bankSlotROM -> addIOBank(1792, 49408)             \* 0x0700, 0xc100
      [] id = bankExpansionROM -> addIOBank(2048, 51200)        \* 0x0800, 0xc800
      [] id = bankSystemCXROM -> addROMBank(256, 4096, 49408)   \* [0x0100:0x1000], 0xc100
      [] id = bankSystemDEFROM -> addROMBank(4096, 16384, 53248) \* [0x1000:0x4000], 0xd000
      [] id = bankZeroStackRAM ->
            \* both types slice mainRAM[0x0000:0x0200]
            addRAMBank("mainRAM", 0, 512, 0)
      [] id = bankMainRAM ->
            addRAMBank(IF typ = bankTypeMain THEN "mainRAM" ELSE "auxRAM", 512, 49152, 512)
      [] id = bankDisplayPage1 ->
            addRAMBank(IF typ = bankTypeMain THEN "mainRAM" ELSE "auxRAM", 1024, 2048, 1024)
      [] id = bankDisplayPage2 ->
            IF typ = bankTypeMain THEN addRAMBank("mainRAM", 2048, 3072, 2048) ELSE zeroBank
      [] id = bankHiRes1 ->
            addRAMBank(IF typ = bankTypeMain THEN "mainRAM" ELSE "auxRAM", 8192, 16384, 8192)
      [] id = bankHiRes2 ->
            \* mainRAM[0x4000:0x8000] at 0x4000
            IF typ = bankTypeMain THEN addRAMBank("mainRAM", 16384, 32768, 16384) ELSE zeroBank
      [] id = bankLangCardDX1RAM ->
            addRAMBank(IF typ = bankTypeMain THEN "mainRAM" ELSE "auxRAM", 53248, 57344, 53248)
      [] id = bankLangCardDX2RAM ->
            addRAMBank(IF typ = bankTypeMain THEN "mainRAM" ELSE "auxRAM", 53248, 57344, 53248)
      [] id = bankLangCardEFRAM ->
            addRAMBank(IF typ = bankTypeMain THEN "mainRAM" ELSE "auxRAM", 57344, 65536, 57344)

\* mmu.banks with MainRAM registered over [0x0200:0xd000], across the I/O window
banks_mainRAMOverIO(typ, id) ==
    CASE id = bankIOSwitches ->
            \* iou.Init installs the accessor in the main entry only
            IF typ = bankTypeMain
            THEN [addIOBank(256, 49152) EXCEPT !.accessor = "ioSwitchBankAccessor"]
            ELSE addIOBank(256, 49152)                          \* 0x0100, 0xc000
      [] id = bankSlotROM -> addIOBank(1792, 49408)             \* 0x0700, 0xc100
      [] id = bankExpansionROM -> addIOBank(2048, 51200)        \* 0x0800, 0xc800
      [] id = bankSystemCXROM -> addROMBank(256, 4096, 49408)   \* [0x0100:0x1000], 0xc100
      [] id = bankSystemDEFROM -> addROMBank(4096, 16384, 53248) \* [0x1000:0x4000], 0xd000
      [] id = bankZeroStackRAM ->
            \* both types slice mainRAM[0x0000:0x0200]
            addRAMBank("mainRAM", 0, 512, 0)
      [] id = bankMainRAM ->
            addRAMBank(IF typ = bankTypeMain THEN "mainRAM" ELSE "auxRAM", 512, 53248, 512)
      [] id = bankDisplayPage1 ->
            addRAMBank(IF typ = bankTypeMain THEN "mainRAM" ELSE "auxRAM", 1024, 2048, 1024)
      [] id = bankDisplayPage2 ->
            IF typ = bankTypeMain THEN addRAMBank("mainRAM", 2048, 3072, 2048) ELSE zeroBank
      [] id = bankHiRes1 ->
            addRAMBank(IF typ = bankTypeMain THEN "mainRAM" ELSE "auxRAM", 8192, 16384, 8192)
      [] id = bankHiRes2 ->
            \* mainRAM[0x4000:0x8000] at 0x4000
            IF typ = bankTypeMain THEN addRAMBank("mainRAM", 16384, 32768, 16384) ELSE zeroBank
      [] id = bankLangCardDX1RAM ->
            addRAMBank(IF typ = bankTypeMain THEN "mainRAM" ELSE "auxRAM", 49152, 53248, 53248)
      [] id = bankLangCardDX2RAM ->
            addRAMBank(IF typ = bankTypeMain THEN "mainRAM" ELSE "auxRAM", 53248, 57344, 53248)
      [] id = bankLangCardEFRAM ->
            addRAMBank(IF typ = bankTypeMain THEN "mainRAM" ELSE "auxRAM", 57344, 65536, 57344)

\* mmu.banks[typ][id] as mmu.Init and iou.Init leave it
banks(typ, id) ==
    CASE id = bankIOSwitches ->
            \* iou.Init installs the accessor in the main entry only
            IF typ = bankTypeMain
            THEN [addIOBank(256, 49152) EXCEPT !.accessor = "ioSwitchBankAccessor"]
            ELSE addIOBank(256, 49152)                          \* 0x0100, 0xc000
      [] id = bankSlotROM -> addIOBank(1792, 49408)             \* 0x0700, 0xc100
      [] id = bankExpansionROM -> addIOBank(2048, 51200)        \* 0x0800, 0xc800
      [] id = bankSystemCXROM -> addROMBank(256, 4096, 49408)   \* [0x0100:0x1000], 0xc100
      [] id = bankSystemDEFROM -> addROMBank(4096, 16384, 53248) \* [0x1000:0x4000], 0xd000
      [] id = bankZeroStackRAM ->
            \* both types slice mainRAM[0x0000:0x0200]
            addRAMBank("mainRAM", 0, 512, 0)
      [] id = bankMainRAM ->
            addRAMBank(IF typ = bankTypeMain THEN "mainRAM" ELSE "auxRAM", 512, 49152, 512)
      [] id = bankDisplayPage1 ->
            addRAMBank(IF typ = bankTypeMain THEN "mainRAM" ELSE "auxRAM", 1024, 2048, 1024)
      [] id = bankDisplayPage2 ->
            IF typ = bankTypeMain THEN addRAMBank("mainRAM", 2048, 3072, 2048) ELSE zeroBank
      [] id = bankHiRes1 ->
            addRAMBank(IF typ = bankTypeMain THEN "mainRAM" ELSE "auxRAM", 8192, 16384, 8192)
      [] id = bankHiRes2 ->
            \* mainRAM[0x4000:0x8000] at 0x4000
            IF typ = bankTypeMain THEN addRAMBank("mainRAM", 16384, 32768, 16384) ELSE zeroBank
      [] id = bankLangCardDX1RAM ->
            addRAMBank(IF typ = bankTypeMain THEN "mainRAM" ELSE "auxRAM", 49152, 53248, 53248)
      [] id = bankLangCardDX2RAM ->
            addRAMBank(IF typ = bankTypeMain THEN "mainRAM" ELSE "auxRAM", 53248, 57344, 53248)
      [] id = bankLangCardEFRAM ->
            addRAMBank(IF typ = bankTypeMain THEN "mainRAM" ELSE "auxRAM", 57344, 65536, 57344)

\* every entry of mmu.banks
AllBanks == {BankRef(typ, id) : typ \in bankTypes, id \in bankIDs}

\* the bank a non-nil reference points at
bankAt(b) == banks(b[1], b[2])

\* the loop bounds of ActivateBank and DeactivateBank:
\* p0 := b.baseAddr >> 8; pn := p0 + b.size>>8
firstPage(b) == bankAt(b).baseAddr \div 256

endPage(b) == u16(firstPage(b) + (bankAt(b).size \div 256))

\* page p is one the loop "for p := p0; p < pn; p++" visits
inBank(b, p) == firstPage(b) <= p /\ p < endPage(b)

\* the pages of a bank
bankPages(b) == {p \in 0..255 : inBank(b, p)}

(* mmu.pages has 256 entries.  Every write to it is a loop over the whole     *)
(* range of one bank, so the pages between two consecutive bank boundaries   *)
(* always hold equal entries: the table is kept as one entry for each such   *)
(* run of pages, indexed by the run's first page.                            *)

\* the first page of each run: page 0 and every page where a bank starts or ends
PageRuns ==
    {p \in {0} \cup {firstPage(b) : b \in AllBanks} \cup {endPage(b) : b \in AllBanks} :
        p <= 255}

\* m.pages[p] in the table pg: the entry of the run p lies in
pageEntry(pg, p) ==
    pg[CHOOSE g \in DOMAIN pg : g <= p /\ \A h \in DOMAIN pg : h <= p => h <= g]

----------------------------------------------------------------------------
(* The machine state the operations transform *)

State ==
    [switches |-> switches, updates |-> updates, pages |-> pages,
     mainRAM |-> mainRAM, auxRAM |-> auxRAM, systemROM |-> systemROM,
     keydata |-> keydata, keydown |-> keydown, panic |-> panic]

\* a handler's result: the state it leaves and the byte it returns
Result(st, ret) == [st |-> st, ret |-> ret]

----------------------------------------------------------------------------
(* mmu.go: bank accessors *)

sliceOf(st, b) ==
    CASE bankAt(b).ram = "mainRAM" -> st.mainRAM
      [] bankAt(b).ram = "auxRAM" -> st.auxRAM
      [] bankAt(b).ram = "systemROM" -> st.systemROM
      [] OTHER -> EmptyMem

\* ramBankAccessor.LoadByte: a.mem[addr], which panics outside the slice
ramLoadByte(st, b, addr) ==
    IF addr < bankAt(b).len
    THEN Result(st, memGet(sliceOf(st, b), bankAt(b).lo + addr))
    ELSE Result([st EXCEPT !.panic = TRUE], 0)

\* ramBankAccessor.StoreByte: a.mem[addr] = v
ramStoreByte(st, b, addr, v) ==
    IF addr < bankAt(b).len
    THEN IF bankAt(b).ram = "mainRAM"
         THEN [st EXCEPT !.mainRAM = memSet(st.mainRAM, bankAt(b).lo + addr, v)]
         ELSE [st EXCEPT !.auxRAM = memSet(st.auxRAM, bankAt(b).lo + addr, v)]
    ELSE [st EXCEPT !.panic = TRUE]

\* romBankAccessor.LoadByte: a.mem[addr]
romLoadByte(st, b, addr) ==
    IF addr < bankAt(b).len
    THEN Result(st, memGet(st.systemROM, bankAt(b).lo + addr))
    ELSE Result([st EXCEPT !.panic = TRUE], 0)

\* a ROM accessor that stores like RAM
romStoreByte_writes(st, b, addr, v) ==
    [st EXCEPT !.systemROM = memSet(st.systemROM, bankAt(b).lo + addr, v)]

\* romBankAccessor.StoreByte: does nothing
romStoreByte(st, b, addr, v) == st

----------------------------------------------------------------------------
(* mmu.go: the page table *)

\* GetBankAccess: looks at the bank's first page only
GetBankAccess(pg, id, typ) ==
    LET b == BankRef(typ, id)
        p == pageEntry(pg, bankAt(b).baseAddr \div 256)
    IN  (IF p.read = b THEN {read} ELSE {}) \cup (IF p.write = b THEN {write} ELSE {})

\* ActivateBank with the loop running to pn inclusive
ActivateBank_inclusiveEnd(pg, id, typ, access) ==
    IF GetBankAccess(pg, id, typ) = access
    THEN pg
    ELSE LET b == BankRef(typ, id)
         IN  [p \in DOMAIN pg |->
                 IF firstPage(b) <= p /\ p <= endPage(b)
                 THEN [read |-> IF read \in access THEN b ELSE pg[p].read,
                       write |-> IF write \in access THEN b ELSE pg[p].write]
                 ELSE pg[p]]

\* ActivateBank
ActivateBank(pg, id, typ, access) ==
    IF GetBankAccess(pg, id, typ) = access
    THEN pg
    ELSE LET b == BankRef(typ, id)
         IN  [p \in DOMAIN pg |->
                 IF inBank(b, p)
                 THEN [read |-> IF read \in access THEN b ELSE pg[p].read,
                       write |-> IF write \in access THEN b ELSE pg[p].write]
                 ELSE pg[p]]

\* DeactivateBank clearing the selected entries whatever bank they point at
DeactivateBank_unguarded(pg, id, typ, access) ==
    LET b == BankRef(typ, id)
    IN  [p \in DOMAIN pg |->
            IF inBank(b, p)
            THEN [read |-> IF read \in access THEN nilBank ELSE pg[p].read,
                  write |-> IF write \in access THEN nilBank ELSE pg[p].write]
            ELSE pg[p]]

\* DeactivateBank; ^access of an access (uint8) value is never a value
\* GetBankAccess returns, so the early return is never taken
DeactivateBank(pg, id, typ, access) ==
    LET b == BankRef(typ, id)
    IN  [p \in DOMAIN pg |->
            IF inBank(b, p)
            THEN [read |-> IF read \in access /\ pg[p].read = b THEN nilBank ELSE pg[p].read,
                  write |-> IF write \in access /\ pg[p].write = b THEN nilBank ELSE pg[p].write]
            ELSE pg[p]]

\* mmu.Init without the activation of DisplayPage1
InitPages_noDisplayPage1 ==
    LET pg0 == [p \in PageRuns |-> [read |-> nilBank, write |-> nilBank]]
        pg1 == ActivateBank(pg0, bankZeroStackRAM, bankTypeMain, {read, write})
        pg2 == ActivateBank(pg1, bankMainRAM, bankTypeMain, {read, write})
        pg4 == ActivateBank(pg2, bankSystemCXROM, bankTypeMain, {read})
        pg5 == ActivateBank(pg4, bankSystemDEFROM, bankTypeMain, {read})
    IN  ActivateBank(pg5, bankIOSwitches, bankTypeMain, {read, write})

\* the page table mmu.Init builds from the all-nil table
InitPages ==
    LET pg0 == [p \in PageRuns |-> [read |-> nilBank, write |-> nilBank]]
        pg1 == ActivateBank(pg0, bankZeroStackRAM, bankTypeMain, {read, write})
        pg2 == ActivateBank(pg1, bankMainRAM, bankTypeMain, {read, write})
        pg3 == ActivateBank(pg2, bankDisplayPage1, bankTypeMain, {read, write})
        pg4 == ActivateBank(pg3, bankSystemCXROM, bankTypeMain, {read})
        pg5 == ActivateBank(pg4, bankSystemDEFROM, bankTypeMain, {read})
    IN  ActivateBank(pg5, bankIOSwitches, bankTypeMain, {read, write})

----------------------------------------------------------------------------
(* keyboard.go *)

keyStrobe == 128

IsKeyDown(st) == st.keydown

GetKeyData(st) == st.keydata

\* SetKey: kb.keydata = v | keyStrobe
SetKey(st, v) == [st EXCEPT !.keydata = (v % keyStrobe) + keyStrobe]

\* ResetKeyStrobe: kb.keydata &= ^keyStrobe
ResetKeyStrobe(st) == [st EXCEPT !.keydata = st.keydata % keyStrobe]

----------------------------------------------------------------------------
(* iou.go: soft switches *)

testSoftSwitch(st, sw) == sw \in st.switches

getSoftSwitchBit7(st, sw) == IF sw \in st.switches THEN 128 ELSE 0

\* setSoftSwitch marking the switch's update groups whether or not it changed
setSoftSwitch_alwaysMarks(st, sw, v) ==
    LET new == IF v THEN st.switches \cup {sw} ELSE st.switches \ {sw}
    IN  [st EXCEPT !.switches = new, !.updates = st.updates \cup switchUpdates(sw)]

setSoftSwitch(st, sw, v) ==
    LET new == IF v THEN st.switches \cup {sw} ELSE st.switches \ {sw}
    IN  [st EXCEPT !.switches = new,
                   !.updates = IF new # st.switches
                               THEN st.updates \cup switchUpdates(sw)
                               ELSE st.updates]

selectBankType(st, sw, onResult, offResult) ==
    IF testSoftSwitch(st, sw) THEN onResult ELSE offResult

selectBank(st, sw, onResult, offResult) ==
    IF testSoftSwitch(st, sw) THEN onResult ELSE offResult

\* applyZPSRAMSwitches mapping ZeroStackRAM (main) whatever ALTZP is
applyZPSRAMSwitches_alwaysMain(st) ==
    [st EXCEPT !.pages = ActivateBank(st.pages, bankZeroStackRAM, bankTypeMain, {read, write})]

applyZPSRAMSwitches(st) ==
    IF testSoftSwitch(st, ioSwitchALTZP)
    THEN [st EXCEPT !.pages = ActivateBank(st.pages, bankZeroStackRAM, bankTypeAux, {read, write})]
    ELSE [st EXCEPT !.pages = ActivateBank(st.pages, bankZeroStackRAM, bankTypeMain, {read, write})]

\* applySystemRAMSwitches mapping MainRAM (main) for reads whatever AUXRAMRD is
applySystemRAMSwitches_readsMain(st) ==
    LET btr == bankTypeMain
        btw == selectBankType(st, ioSwitchAUXRAMWRT, bankTypeAux, bankTypeMain)
        pg1 == ActivateBank(st.pages, bankMainRAM, btr, {read})
        pg2 == ActivateBank(pg1, bankMainRAM, btw, {write})
        bt  == selectBankType(st, ioSwitchPAGE2, bankTypeAux, bankTypeMain)
        dp  == selectBank(st, ioSwitchPAGE2, bankDisplayPage2, bankDisplayPage1)
        hi  == selectBank(st, ioSwitchPAGE2, bankHiRes2, bankHiRes1)
        pg3 == IF testSoftSwitch(st, ioSwitch80STORE)
               THEN LET q == ActivateBank(pg2, bankDisplayPage1, bt, {read, write})
                    IN  IF testSoftSwitch(st, ioSwitchHIRES)
                        THEN ActivateBank(q, bankHiRes1, bt, {read, write})
                        ELSE q
               ELSE LET q == ActivateBank(pg2, dp, bankTypeMain, {read, write})
                    IN  IF testSoftSwitch(st, ioSwitchHIRES)
                        THEN ActivateBank(q, hi, bankTypeMain, {read, write})
                        ELSE q
    IN  [st EXCEPT !.pages = pg3]

\* applySystemRAMSwitches taking the 80STORE overlay's type from AUXRAMWRT
applySystemRAMSwitches_overlayByWrt(st) ==
    LET btr == selectBankType(st, ioSwitchAUXRAMRD, bankTypeAux, bankTypeMain)
        btw == selectBankType(st, ioSwitchAUXRAMWRT, bankTypeAux, bankTypeMain)
        pg1 == ActivateBank(st.pages, bankMainRAM, btr, {read})
        pg2 == ActivateBank(pg1, bankMainRAM, btw, {write})
        bt  == selectBankType(st, ioSwitchAUXRAMWRT, bankTypeAux, bankTypeMain)
        dp  == selectBank(st, ioSwitchPAGE2, bankDisplayPage2, bankDisplayPage1)
        hi  == selectBank(st, ioSwitchPAGE2, bankHiRes2, bankHiRes1)
        pg3 == IF testSoftSwitch(st, ioSwitch80STORE)
               THEN LET q == ActivateBank(pg2, bankDisplayPage1, bt, {read, write})
                    IN  IF testSoftSwitch(st, ioSwitchHIRES)
                        THEN ActivateBank(q, bankHiRes1, bt, {read, write})
                        ELSE q
               ELSE LET q == ActivateBank(pg2, dp, bankTypeMain, {read, write})
                    IN  IF testSoftSwitch(st, ioSwitchHIRES)
                        THEN ActivateBank(q, hi, bankTypeMain, {read, write})
                        ELSE q
    IN  [st EXCEPT !.pages = pg3]

applySystemRAMSwitches(st) ==
    LET btr == selectBankType(st, ioSwitchAUXRAMRD, bankTypeAux, bankTypeMain)
        btw == selectBankType(st, ioSwitchAUXRAMWRT, bankTypeAux, bankTypeMain)
        pg1 == ActivateBank(st.pages, bankMainRAM, btr, {read})
        pg2 == ActivateBank(pg1, bankMainRAM, btw, {write})
        bt  == selectBankType(st, ioSwitchPAGE2, bankTypeAux, bankTypeMain)
        dp  == selectBank(st, ioSwitchPAGE2, bankDisplayPage2, bankDisplayPage1)
        hi  == selectBank(st, ioSwitchPAGE2, bankHiRes2, bankHiRes1)
        pg3 == IF testSoftSwitch(st, ioSwitch80STORE)
               THEN LET q == ActivateBank(pg2, bankDisplayPage1, bt, {read, write})
                    IN  IF testSoftSwitch(st, ioSwitchHIRES)
                        THEN ActivateBank(q, bankHiRes1, bt, {read, write})
                        ELSE q
               ELSE LET q == ActivateBank(pg2, dp, bankTypeMain, {read, write})
                    IN  IF testSoftSwitch(st, ioSwitchHIRES)
                        THEN ActivateBank(q, hi, bankTypeMain, {read, write})
                        ELSE q
    IN  [st EXCEPT !.pages = pg3]

\* applyLCRAMSwitches selecting the Dx bank with the sense of LCBANK2 inverted
applyLCRAMSwitches_swappedDx(st) ==
    LET btr == selectBankType(st, ioSwitchAUXRAMRD, bankTypeAux, bankTypeMain)
        btw == selectBankType(st, ioSwitchAUXRAMWRT, bankTypeAux, bankTypeMain)
        lcbank == selectBank(st, ioSwitchLCBANK2, bankLangCardDX1RAM, bankLangCardDX2RAM)
        pg1 == IF testSoftSwitch(st, ioSwitchLCRAMRD)
               THEN ActivateBank(ActivateBank(st.pages, bankLangCardEFRAM, btr, {read}),
                                 lcbank, btr, {read})
               ELSE ActivateBank(st.pages, bankSystemDEFROM, bankTypeMain, {read})
        pg2 == IF testSoftSwitch(st, ioSwitchLCRAMWRT)
               THEN ActivateBank(ActivateBank(pg1, bankLangCardEFRAM, btw, {write}),
                                 lcbank, btw, {write})
               ELSE ActivateBank(pg1, bankSystemDEFROM, bankTypeMain, {write})
    IN  [st EXCEPT !.pages = pg2]

\* applyLCRAMSwitches leaving the write entries alone when LCRAMWRT is off
applyLCRAMSwitches_keepsWrite(st) ==
    LET btr == selectBankType(st, ioSwitchAUXRAMRD, bankTypeAux, bankTypeMain)
        btw == selectBankType(st, ioSwitchAUXRAMWRT, bankTypeAux, bankTypeMain)
        lcbank == selectBank(st, ioSwitchLCBANK2, bankLangCardDX2RAM, bankLangCardDX1RAM)
        pg1 == IF testSoftSwitch(st, ioSwitchLCRAMRD)
               THEN ActivateBank(ActivateBank(st.pages, bankLangCardEFRAM, btr, {read}),
                                 lcbank, btr, {read})
               ELSE ActivateBank(st.pages, bankSystemDEFROM, bankTypeMain, {read})
        pg2 == IF testSoftSwitch(st, ioSwitchLCRAMWRT)
               THEN ActivateBank(ActivateBank(pg1, bankLangCardEFRAM, btw, {write}),
                                 lcbank, btw, {write})
               ELSE pg1
    IN  [st EXCEPT !.pages = pg2]

applyLCRAMSwitches(st) ==
    LET btr == selectBankType(st, ioSwitchAUXRAMRD, bankTypeAux, bankTypeMain)
        btw == selectBankType(st, ioSwitchAUXRAMWRT, bankTypeAux, bankTypeMain)
        lcbank == selectBank(st, ioSwitchLCBANK2, bankLangCardDX2RAM, bankLangCardDX1RAM)
        pg1 == IF testSoftSwitch(st, ioSwitchLCRAMRD)
               THEN ActivateBank(ActivateBank(st.pages, bankLangCardEFRAM, btr, {read}),
                                 lcbank, btr, {read})
               ELSE ActivateBank(st.pages, bankSystemDEFROM, bankTypeMain, {read})
        pg2 == IF testSoftSwitch(st, ioSwitchLCRAMWRT)
               THEN ActivateBank(ActivateBank(pg1, bankLangCardEFRAM, btw, {write}),
                                 lcbank, btw, {write})
               ELSE ActivateBank(pg1, bankSystemDEFROM, bankTypeMain, {write})
    IN  [st EXCEPT !.pages = pg2]

\* applySwitchUpdates, the three tests of iou.updates in turn; no apply function
\* changes iou.updates
applyIfZPSRAM(st) ==
    IF updateZPSRAM \in st.updates THEN applyZPSRAMSwitches(st) ELSE st

applyIfSystemRAM(st) ==
    IF updateSystemRAM \in st.updates THEN applySystemRAMSwitches(st) ELSE st

applyIfLCRAM(st) ==
    IF updateLCRAM \in st.updates THEN applyLCRAMSwitches(st) ELSE st

\* applySwitchUpdates leaving iou.updates as it was
applySwitchUpdates_keepsMask(st) ==
    IF st.updates = {}
    THEN st
    ELSE applyIfLCRAM(applyIfSystemRAM(applyIfZPSRAM(st)))

applySwitchUpdates(st) ==
    IF st.updates = {}
    THEN st
    ELSE [applyIfLCRAM(applyIfSystemRAM(applyIfZPSRAM(st))) EXCEPT !.updates = {}]

----------------------------------------------------------------------------
(* iou.go: the handlers of the $C0xx window; addr is the offset in the bank *)

\* switchWriteC00x[i]
switchWriteC00x(i) ==
    CASE i = 0 -> ioSwitch80STORE
      [] i = 1 -> ioSwitchAUXRAMRD
      [] i = 2 -> ioSwitchAUXRAMWRT
      [] i = 3 -> ioSwitchCXROM
      [] i = 4 -> ioSwitchALTZP
      [] i = 5 -> ioSwitchC3ROM
      [] i = 6 -> ioSwitch80COL
      [] i = 7 -> ioSwitchALTCHARSET

\* switchReadC01x[i]
\* switchReadC01x with the rows of $C01E and $C01F exchanged
switchReadC01x_swapped(i) ==
    CASE i = 0 -> ioSwitches
      [] i = 1 -> ioSwitchLCBANK2
      [] i = 2 -> ioSwitchLCRAMRD
      [] i = 3 -> ioSwitchAUXRAMRD
      [] i = 4 -> ioSwitchAUXRAMWRT
      [] i = 5 -> ioSwitchCXROM
      [] i = 6 -> ioSwitchALTZP
      [] i = 7 -> ioSwitchC3ROM
      [] i = 8 -> ioSwitch80STORE
      [] i = 9 -> ioSwitchVBLINT
      [] i = 10 -> ioSwitchTEXT
      [] i = 11 -> ioSwitchMIXED
      [] i = 12 -> ioSwitchPAGE2
      [] i = 13 -> ioSwitchHIRES
      [] i = 14 -> ioSwitch80COL
      [] i = 15 -> ioSwitchALTCHARSET

switchReadC01x(i) ==
    CASE i = 0 -> ioSwitches
      [] i = 1 -> ioSwitchLCBANK2
      [] i = 2 -> ioSwitchLCRAMRD
      [] i = 3 -> ioSwitchAUXRAMRD
      [] i = 4 -> ioSwitchAUXRAMWRT
      [] i = 5 -> ioSwitchCXROM
      [] i = 6 -> ioSwitchALTZP
      [] i = 7 -> ioSwitchC3ROM
      [] i = 8 -> ioSwitch80STORE
      [] i = 9 -> ioSwitchVBLINT
      [] i = 10 -> ioSwitchTEXT
      [] i = 11 -> ioSwitchMIXED
      [] i = 12 -> ioSwitchPAGE2
      [] i = 13 -> ioSwitchHIRES
      [] i = 14 -> ioSwitchALTCHARSET
      [] i = 15 -> ioSwitch80COL

\* onSwitchReadC00x clearing the strobe as it reads the key
onSwitchReadC00x_clearsStrobe(st, addr) ==
    IF addr = 0 THEN Result(ResetKeyStrobe(st), GetKeyData(st)) ELSE Result(st, 0)

onSwitchReadC00x(st, addr) ==
    IF addr = 0 THEN Result(st, GetKeyData(st)) ELSE Result(st, 0)

onSwitchWriteC00x(st, addr, v) ==
    setSoftSwitch(st, switchWriteC00x(addr \div 2), (addr % 2) = 1)

\* onSwitchReadC01x leaving the strobe set
onSwitchReadC01x_keepsStrobe(st, addr) ==
    IF addr = 16
    THEN IF IsKeyDown(st)
         THEN Result(st, 128 + (GetKeyData(st) % keyStrobe))
         ELSE Result(st, 0)
    ELSE Result(st, getSoftSwitchBit7(st, switchReadC01x(addr - 16)))

onSwitchReadC01x(st, addr) ==
    IF addr = 16
    THEN LET keyDown == IsKeyDown(st)
             s1 == ResetKeyStrobe(st)
         IN  IF keyDown
             THEN Result(s1, 128 + (GetKeyData(s1) % keyStrobe))
             ELSE Result(s1, 0)
    ELSE Result(st, getSoftSwitchBit7(st, switchReadC01x(addr - 16)))

onSwitchWriteC01x(st, addr, v) ==
    IF addr = 16 THEN onSwitchReadC01x(st, addr).st ELSE st

\* onSwitchReadC05x taking IOUDIS as off
onSwitchReadC05x_noLock(st, addr) ==
    LET iouDis == FALSE
        s1 == CASE addr = 80 -> setSoftSwitch(st, ioSwitchTEXT, FALSE)
                [] addr = 81 -> setSoftSwitch(st, ioSwitchTEXT, TRUE)
                [] addr = 82 -> setSoftSwitch(st, ioSwitchMIXED, FALSE)
                [] addr = 83 -> setSoftSwitch(st, ioSwitchMIXED, TRUE)
                [] addr = 84 -> setSoftSwitch(st, ioSwitchPAGE2, FALSE)
                [] addr = 85 -> setSoftSwitch(st, ioSwitchPAGE2, TRUE)
                [] addr = 86 -> setSoftSwitch(st, ioSwitchHIRES, FALSE)
                [] addr = 87 -> setSoftSwitch(st, ioSwitchHIRES, TRUE)
                [] addr = 88 -> IF ~iouDis THEN setSoftSwitch(st, ioSwitchANNUNCIATOR0, FALSE) ELSE st
                [] addr = 89 -> IF ~iouDis THEN setSoftSwitch(st, ioSwitchANNUNCIATOR0, TRUE) ELSE st
                [] addr = 90 -> IF ~iouDis THEN setSoftSwitch(st, ioSwitchANNUNCIATOR1, FALSE) ELSE st
                [] addr = 91 -> IF ~iouDis THEN setSoftSwitch(st, ioSwitchANNUNCIATOR1, TRUE) ELSE st
                [] addr = 92 -> IF ~iouDis THEN setSoftSwitch(st, ioSwitchANNUNCIATOR2, FALSE) ELSE st
                [] addr = 93 -> IF ~iouDis THEN setSoftSwitch(st, ioSwitchANNUNCIATOR2, TRUE) ELSE st
                [] addr = 94 -> IF iouDis
                                THEN setSoftSwitch(st, ioSwitchDHIRES, TRUE)
                                ELSE setSoftSwitch(st, ioSwitchANNUNCIATOR3, FALSE)
                [] addr = 95 -> IF iouDis
                                THEN setSoftSwitch(st, ioSwitchDHIRES, FALSE)
                                ELSE setSoftSwitch(st, ioSwitchANNUNCIATOR3, TRUE)
                [] OTHER -> st
    IN  Result(s1, 160)

onSwitchReadC05x(st, addr) ==
    LET iouDis == testSoftSwitch(st, ioSwitchIOUDIS)
        s1 == CASE addr = 80 -> setSoftSwitch(st, ioSwitchTEXT, FALSE)
                [] addr = 81 -> setSoftSwitch(st, ioSwitchTEXT, TRUE)
                [] addr = 82 -> setSoftSwitch(st, ioSwitchMIXED, FALSE)
                [] addr = 83 -> setSoftSwitch(st, ioSwitchMIXED, TRUE)
                [] addr = 84 -> setSoftSwitch(st, ioSwitchPAGE2, FALSE)
                [] addr = 85 -> setSoftSwitch(st, ioSwitchPAGE2, TRUE)
                [] addr = 86 -> setSoftSwitch(st, ioSwitchHIRES, FALSE)
                [] addr = 87 -> setSoftSwitch(st, ioSwitchHIRES, TRUE)
                [] addr = 88 -> IF ~iouDis THEN setSoftSwitch(st, ioSwitchANNUNCIATOR0, FALSE) ELSE st
                [] addr = 89 -> IF ~iouDis THEN setSoftSwitch(st, ioSwitchANNUNCIATOR0, TRUE) ELSE st
                [] addr = 90 -> IF ~iouDis THEN setSoftSwitch(st, ioSwitchANNUNCIATOR1, FALSE) ELSE st
                [] addr = 91 -> IF ~iouDis THEN setSoftSwitch(st, ioSwitchANNUNCIATOR1, TRUE) ELSE st
                [] addr = 92 -> IF ~iouDis THEN setSoftSwitch(st, ioSwitchANNUNCIATOR2, FALSE) ELSE st
                [] addr = 93 -> IF ~iouDis THEN setSoftSwitch(st, ioSwitchANNUNCIATOR2, TRUE) ELSE st
                [] addr = 94 -> IF iouDis
                                THEN setSoftSwitch(st, ioSwitchDHIRES, TRUE)
                                ELSE setSoftSwitch(st, ioSwitchANNUNCIATOR3, FALSE)
                [] addr = 95 -> IF iouDis
                                THEN setSoftSwitch(st, ioSwitchDHIRES, FALSE)
                                ELSE setSoftSwitch(st, ioSwitchANNUNCIATOR3, TRUE)
                [] OTHER -> st
    IN  Result(s1, 160)

\* a write handler that toggles nothing
onSwitchWriteC05x_ignores(st, addr, v) == st

onSwitchWriteC05x(st, addr, v) == onSwitchReadC05x(st, addr).st

\* defined by the source but entered in no row of switchBank
onSwitchReadC07x(st, addr) ==
    LET ret == CASE addr = 126 -> getSoftSwitchBit7(st, ioSwitchIOUDIS)
                 [] addr = 127 -> getSoftSwitchBit7(st, ioSwitchDHIRES)
                 [] OTHER -> 0
    IN  Result(setSoftSwitch(st, ioSwitchVBLINT, FALSE), ret)

\* onSwitchWriteC07x with the senses of $C07E and $C07F exchanged
onSwitchWriteC07x_swapped(st, addr, v) ==
    CASE addr = 126 -> setSoftSwitch(st, ioSwitchIOUDIS, TRUE)
      [] addr = 127 -> setSoftSwitch(st, ioSwitchIOUDIS, FALSE)
      [] OTHER -> st

onSwitchWriteC07x(st, addr, v) ==
    CASE addr = 126 -> setSoftSwitch(st, ioSwitchIOUDIS, FALSE)
      [] addr = 127 -> setSoftSwitch(st, ioSwitchIOUDIS, TRUE)
      [] OTHER -> st

\* onSwitchReadC08x taking LCRAMRD from bit 1 alone
onSwitchReadC08x_rdFromBit1(st, addr) ==
    LET s1 == setSoftSwitch(st, ioSwitchLCRAMRD, ~bitTest16(addr, 1))
        s2 == setSoftSwitch(s1, ioSwitchLCRAMWRT, bitTest16(addr, 0))
        s3 == setSoftSwitch(s2, ioSwitchLCBANK2, ~bitTest16(addr, 3))
    IN  Result(s3, 160)

onSwitchReadC08x(st, addr) ==
    LET s1 == setSoftSwitch(st, ioSwitchLCRAMRD, ~bitTest16((bitOf(addr, 0) + bitOf(addr, 1)) % 2, 0))
        s2 == setSoftSwitch(s1, ioSwitchLCRAMWRT, bitTest16(addr, 0))
        s3 == setSoftSwitch(s2, ioSwitchLCBANK2, ~bitTest16(addr, 3))
    IN  Result(s3, 160)

\* switchBank[index].read, "nil" where the row has none
switchBankRead(index) ==
    CASE index = 0 -> "onSwitchReadC00x"
      [] index = 1 -> "onSwitchReadC01x"
      [] index = 5 -> "onSwitchReadC05x"
      [] index = 8 -> "onSwitchReadC08x"
      [] OTHER -> "nil"

\* switchBank[index].write, "nil" where the row has none
switchBankWrite(index) ==
    CASE index = 0 -> "onSwitchWriteC00x"
      [] index = 1 -> "onSwitchWriteC01x"
      [] index = 5 -> "onSwitchWriteC05x"
      [] index = 7 -> "onSwitchWriteC07x"
      [] OTHER -> "nil"

\* ioSwitchBankAccessor.LoadByte, after the handler returned r:
\* applySwitchUpdates, then return the handler's byte
afterRead(r) == Result(applySwitchUpdates(r.st), r.ret)

\* LoadByte without the test of index: switchBank[index] beyond the table's
\* nine rows is an index-out-of-range panic
ioSwitchLoadByte_noIndexTest(st, addr) ==
    LET index == addr \div 16
        fn == switchBankRead(index)
    IN  IF index > 8
        THEN Result([st EXCEPT !.panic = TRUE], 0)
        ELSE IF fn = "nil"
        THEN Result(st, 0)
        ELSE afterRead(CASE fn = "onSwitchReadC00x" -> onSwitchReadC00x(st, addr)
                         [] fn = "onSwitchReadC01x" -> onSwitchReadC01x(st, addr)
                         [] fn = "onSwitchReadC05x" -> onSwitchReadC05x(st, addr)
                         [] fn = "onSwitchReadC08x" -> onSwitchReadC08x(st, addr))

\* ioSwitchBankAccessor.LoadByte
ioSwitchLoadByte(st, addr) ==
    LET index == addr \div 16
        fn == switchBankRead(index)
    IN  IF index > 8 \/ fn = "nil"
        THEN Result(st, 0)
        ELSE afterRead(CASE fn = "onSwitchReadC00x" -> onSwitchReadC00x(st, addr)
                         [] fn = "onSwitchReadC01x" -> onSwitchReadC01x(st, addr)
                         [] fn = "onSwitchReadC05x" -> onSwitchReadC05x(st, addr)
                         [] fn = "onSwitchReadC08x" -> onSwitchReadC08x(st, addr))

\* a store running the read handler of its address
ioSwitchStoreByte_asLoad(st, addr, v) == ioSwitchLoadByte(st, addr).st

\* ioSwitchBankAccessor.StoreByte
ioSwitchStoreByte(st, addr, v) ==
    LET index == addr \div 16
        fn == switchBankWrite(index)
    IN  IF index > 8 \/ fn = "nil"
        THEN st
        ELSE applySwitchUpdates(
                 CASE fn = "onSwitchWriteC00x" -> onSwitchWriteC00x(st, addr, v)
                   [] fn = "onSwitchWriteC01x" -> onSwitchWriteC01x(st, addr, v)
                   [] fn = "onSwitchWriteC05x" -> onSwitchWriteC05x(st, addr, v)
                   [] fn = "onSwitchWriteC07x" -> onSwitchWriteC07x(st, addr, v))

----------------------------------------------------------------------------
(* mmu.go: dispatch through the page table *)

\* b.accessor.LoadByte(paddr); a nil accessor is a nil-pointer panic
accessorLoadByte(st, b, paddr) ==
    CASE bankAt(b).accessor = "ramBankAccessor" -> ramLoadByte(st, b, paddr)
      [] bankAt(b).accessor = "romBankAccessor" -> romLoadByte(st, b, paddr)
      [] bankAt(b).accessor = "ioSwitchBankAccessor" -> ioSwitchLoadByte(st, paddr)
      [] OTHER -> Result([st EXCEPT !.panic = TRUE], 0)

\* b.accessor.StoreByte(paddr, v)
accessorStoreByte(st, b, paddr, v) ==
    CASE bankAt(b).accessor = "ramBankAccessor" -> ramStoreByte(st, b, paddr, v)
      [] bankAt(b).accessor = "romBankAccessor" -> romStoreByte(st, b, paddr, v)
      [] bankAt(b).accessor = "ioSwitchBankAccessor" -> ioSwitchStoreByte(st, paddr, v)
      [] OTHER -> [st EXCEPT !.panic = TRUE]

\* LoadByte answering $FF where no bank is mapped
LoadByte_floatingBus(st, addr) ==
    LET b == pageEntry(st.pages, addr \div 256).read
    IN  IF b = nilBank
        THEN Result(st, 255)
        ELSE accessorLoadByte(st, b, u16(addr - bankAt(b).baseAddr))

\* LoadByte decoding all of $C000..$CFFF as the soft-switch window
LoadByte_ioMirror(st, addr) ==
    LET b == pageEntry(st.pages, addr \div 256).read
    IN  IF addr \div 4096 = 12
        THEN ioSwitchLoadByte(st, addr % 256)
        ELSE IF b = nilBank
             THEN Result(st, 0)
             ELSE accessorLoadByte(st, b, u16(addr - bankAt(b).baseAddr))

\* mmu.LoadByte
LoadByte(st, addr) ==
    LET b == pageEntry(st.pages, addr \div 256).read
    IN  IF b = nilBank
        THEN Result(st, 0)
        ELSE accessorLoadByte(st, b, u16(addr - bankAt(b).baseAddr))

\* the high byte always taken from paddr + 1
hiAddr_noWrap(paddr) == u16(paddr + 1)

\* the offset of the high byte: paddr - 0xff at the end of a page, else paddr + 1
hiAddr(paddr) == IF paddr % 256 = 255 THEN u16(paddr - 255) ELSE u16(paddr + 1)

\* mmu.LoadAddress, its return: uint16(lo) | uint16(hi)<<8
joinWord(lo, hi) == Result(hi.st, lo.ret + 256 * hi.ret)

\* mmu.LoadAddress, its second accessor call: the high byte, after the low byte
\* lo has been loaded, joined to it
loadHigh(lo, b, paddr) ==
    IF lo.st.panic
    THEN lo
    ELSE joinWord(lo, accessorLoadByte(lo.st, b, hiAddr(paddr)))

\* mmu.LoadAddress: both bytes through the bank found first
LoadAddress(st, addr) ==
    LET b == pageEntry(st.pages, addr \div 256).read
    IN  IF b = nilBank
        THEN Result(st, 0)
        ELSE LET paddr == u16(addr - bankAt(b).baseAddr)
             IN  CHOOSE r \in {loadHigh(lo, b, paddr) :
                                   lo \in {accessorLoadByte(st, b, paddr)}} : TRUE

\* mmu.StoreByte
StoreByte(st, addr, v) ==
    LET b == pageEntry(st.pages, addr \div 256).write
    IN  IF b = nilBank
        THEN st
        ELSE accessorStoreByte(st, b, u16(addr - bankAt(b).baseAddr), v)

\* the second accessor call storing byte(v) again
storeHigh_lowTwice(s1, b, paddr, v) ==
    IF s1.panic THEN s1 ELSE accessorStoreByte(s1, b, hiAddr(paddr), u8(v))

\* mmu.StoreAddress, its second accessor call: the high byte, after the low byte
\* has been stored
storeHigh(s1, b, paddr, v) ==
    IF s1.panic THEN s1 ELSE accessorStoreByte(s1, b, hiAddr(paddr), u8(v \div 256))

\* mmu.StoreAddress
StoreAddress(st, addr, v) ==
    LET b == pageEntry(st.pages, addr \div 256).write
    IN  IF b = nilBank
        THEN st
        ELSE LET paddr == u16(addr - bankAt(b).baseAddr)
             IN  CHOOSE r \in {storeHigh(s1, b, paddr, v) :
                                   s1 \in {accessorStoreByte(st, b, paddr, u8(v))}} : TRUE

\* the address of byte i kept in the page of addr, as the high byte of a word is
byteAddr_pageWrap(addr, i) == ((addr \div 256) * 256) + ((addr + i) % 256)

\* mmu.LoadBytes, mmu.StoreBytes: the address of byte i, addr + uint16(i) in
\* uint16, carrying into the next page and wrapping at $FFFF
byteAddr(addr, i) == u16(addr + i)

\* a loaded byte put before the bytes loaded after it
consByte(r, rest) == Result(rest.st, <<r.ret>> \o rest.ret)

\* mmu.LoadBytes, its loop from index i: b[i] = m.LoadByte(addr + uint16(i))
RECURSIVE loadBytesFrom(_, _, _, _)
loadBytesFrom(st, addr, n, i) ==
    IF i >= n \/ st.panic
    THEN Result(st, <<>>)
    ELSE CHOOSE res \in {consByte(r, loadBytesFrom(r.st, addr, n, i + 1)) :
                             r \in {LoadByte(st, byteAddr(addr, i))}} : TRUE

\* mmu.LoadBytes into a slice of n bytes
LoadBytes(st, addr, n) == loadBytesFrom(st, addr, n, 0)

\* mmu.StoreBytes, its loop from index i: m.StoreByte(addr+uint16(i), b[i])
RECURSIVE storeBytesFrom(_, _, _, _)
storeBytesFrom(st, addr, b, i) ==
    IF i >= Len(b) \/ st.panic
    THEN st
    ELSE storeBytesFrom(StoreByte(st, byteAddr(addr, i), b[i + 1]), addr, b, i + 1)

\* mmu.StoreBytes
StoreBytes(st, addr, b) == storeBytesFrom(st, addr, b, 0)

----------------------------------------------------------------------------
(* The machine: construction and the operations of its caller *)

\* a system ROM image as LoadSystemROM leaves it: bytes at the offsets that serve
\* $C100, $D000, $D001, $FF00 and $FFFF; the image of zeroes is the ROM not loaded
LoadedROM == (257 :> 76) @@ (4096 :> 76) @@ (4097 :> 105) @@ (16128 :> 32) @@ (16383 :> 255)

\* newApple2: mmu.Init, iou.Init, kb.Init, then LoadROM with the given image
InitWith(rom) ==
    /\ switches = {}
    /\ updates = {}
    /\ pages = InitPages
    /\ mainRAM = EmptyMem
    /\ auxRAM = EmptyMem
    /\ systemROM = rom
    /\ keydata = 0
    /\ keydown = FALSE
    /\ panic = FALSE
    /\ hist = <<>>

Init == InitWith(EmptyMem)

\* the record of one operation and its result
Op(op, addr, v, ret) == [op |-> op, addr |-> addr, v |-> v, ret |-> ret]

\* m.pages[p] now
page(p) == pageEntry(pages, p)

\* the most recent operation
last == hist[Len(hist)]

Did(op, addr) == hist # <<>> /\ last.op = op /\ last.addr = addr

\* what a specification records of a run: the last operation, the last two, or
\* the whole run, which then ends after MaxTrace operations
Record(e, mode) ==
    CASE mode = "last" -> <<e>>
      [] mode = "pair" -> IF hist = <<>> THEN <<e>> ELSE <<hist[Len(hist)], e>>
      [] mode = "trace" -> Append(hist, e)

\* the state an operation leaves, and its record
Commit(st, e, mode) ==
    /\ ~panic
    /\ mode = "trace" => Len(hist) < MaxTrace
    /\ switches' = st.switches
    /\ updates' = st.updates
    /\ pages' = st.pages
    /\ mainRAM' = st.mainRAM
    /\ auxRAM' = st.auxRAM
    /\ systemROM' = st.systemROM
    /\ keydata' = st.keydata
    /\ keydown' = st.keydown
    /\ panic' = st.panic
    /\ hist' = Record(e, mode)

CpuLoadByte(a, mode) ==
    \E r \in {LoadByte(State, a)} : Commit(r.st, Op("load", a, 0, r.ret), mode)

CpuStoreByte(a, v, mode) ==
    \E st \in {StoreByte(State, a, v)} : Commit(st, Op("store", a, v, 0), mode)

CpuLoadAddress(a, mode) ==
    \E r \in {LoadAddress(State, a)} : Commit(r.st, Op("loadaddr", a, 0, r.ret), mode)

CpuStoreAddress(a, v, mode) ==
    \E st \in {StoreAddress(State, a, v)} : Commit(st, Op("storeaddr", a, v, 0), mode)

CpuLoadBytes(a, n, mode) ==
    \E r \in {LoadBytes(State, a, n)} : Commit(r.st, Op("loadbytes", a, n, r.ret), mode)

CpuStoreBytes(a, b, mode) ==
    \E st \in {StoreBytes(State, a, b)} : Commit(st, Op("storebytes", a, b, 0), mode)

KeyPress(k, mode) ==
    \E st \in {SetKey(State, k)} : Commit(st, Op("setkey", 0, k, 0), mode)

\* a direct call of mmu.ActivateBank
ApiActivateBank(b, access, mode) ==
    \E pg \in {ActivateBank(pages, b[2], b[1], access)} :
        Commit([State EXCEPT !.pages = pg], Op("activate", 0, 0, 0), mode)

\* a direct call of mmu.DeactivateBank
ApiDeactivateBank(b, access, mode) ==
    \E pg \in {DeactivateBank(pages, b[2], b[1], access)} :
        Commit([State EXCEPT !.pages = pg], Op("deactivate", 0, 0, 0), mode)

----------------------------------------------------------------------------
(* Addresses *)

IOBase == 49152    \* $C000

\* $C080..$C08F
AddrC08x == {IOBase + o : o \in 128..143}

\* $C002..$C005: AUXRAMRD and AUXRAMWRT off/on
AddrAuxRW == {IOBase + o : o \in 2..5}

\* $C000..$C00F
AddrC00x == {IOBase + o : o \in 0..15}

\* $C010..$C01F
AddrC01x == {IOBase + o : o \in 16..31}

----------------------------------------------------------------------------
(* The language card: $C08x loads, with AUXRAMRD/AUXRAMWRT switched by stores *)

NextLC ==
    \/ \E a \in AddrC08x : CpuLoadByte(a, "last")
    \/ \E a \in AddrAuxRW : CpuStoreByte(a, 0, "last")
    \/ \E a \in AddrC08x : CpuStoreByte(a, 255, "last")

SpecLC == Init /\ [][NextLC]_vars

----------------------------------------------------------------------------
(* The $C00x switches: stores to $C000..$C00F, loads of $C010..$C01F *)

\* the bytes stored to a switch address
SwitchVals == {0, 255}

NextC00x ==
    \/ \E a \in AddrC00x, v \in SwitchVals : CpuStoreByte(a, v, "last")
    \/ \E a \in AddrC01x : CpuLoadByte(a, "last")

SpecC00x == Init /\ [][NextC00x]_vars

----------------------------------------------------------------------------
(* Repeated switch accesses, the last two operations recorded *)

\* $C002/3 AUXRAMRD, $C008/9 ALTZP, $C000/1 80STORE
AddrNoOpStore == {IOBase + o : o \in {0, 1, 2, 3, 8, 9}}

\* $C054/5 PAGE2, $C082/3/A/B language card
AddrNoOpLoad == {IOBase + o : o \in {84, 85, 130, 131, 138, 139}}

NextNoOp ==
    \/ \E a \in AddrNoOpStore : CpuStoreByte(a, 0, "pair")
    \/ \E a \in AddrNoOpLoad : CpuLoadByte(a, "pair")

SpecNoOp == Init /\ [][NextNoOp]_vars

----------------------------------------------------------------------------
(* The zero page under ALTZP: whole runs from construction *)

\* the bytes stored to $0000
ZPVals == {90, 51}    \* $5A, $33

NextZP ==
    \/ \E v \in ZPVals : CpuStoreByte(0, v, "trace")
    \/ \E o \in {8, 9} : CpuStoreByte(IOBase + o, 0, "trace")    \* ALTZP off, on
    \/ CpuLoadByte(0, "trace")

SpecZP == Init /\ [][NextZP]_vars

----------------------------------------------------------------------------
(* $2000 under AUXRAMRD: whole runs from construction *)

\* the bytes stored to $2000
AuxVals == {170, 85}    \* $AA, $55

NextAuxRd ==
    \/ \E v \in AuxVals : CpuStoreByte(8192, v, "trace")
    \/ \E o \in {2, 3} : CpuStoreByte(IOBase + o, 0, "trace")    \* AUXRAMRD off, on
    \/ CpuLoadByte(8192, "trace")

SpecAuxRd == Init /\ [][NextAuxRd]_vars

----------------------------------------------------------------------------
(* The 80STORE overlay: the switches of the lower 48K and stores to $0400..$07FF *)

\* $C000..$C005: 80STORE, AUXRAMRD, AUXRAMWRT off/on
Addr80Store == {IOBase + o : o \in 0..5}

\* $C054..$C057: PAGE2, HIRES off/on
Addr80Load == {IOBase + o : o \in 84..87}

\* $0400 and $07FF
AddrText1 == {1024, 2047}

Next80 ==
    \/ \E a \in Addr80Store : CpuStoreByte(a, 0, "last")
    \/ \E a \in Addr80Load : CpuLoadByte(a, "last")
    \/ \E a \in AddrText1 : CpuStoreByte(a, 65, "last")

Spec80 == Init /\ [][Next80]_vars

----------------------------------------------------------------------------
(* Memory accesses: RAM, ROM and unmapped pages, with the ROM loaded *)

\* the bytes stored to memory
MemVals == {171, 205}    \* $AB, $CD

\* $2000, $20FF, $D000, $C100
AddrMemStore == {8192, 8447, 53248, 49408}

\* $2000, $20FF, $D000, $C183
AddrMemLoad == {8192, 8447, 53248, 49539}

\* $20FF, $2000, $D000, $FFFF, $C100 and, in the switch window, $C082
AddrMemLoadAddr == {8447, 8192, 53248, 65535, 49408, IOBase + 130}

NextMem ==
    \/ \E a \in AddrMemStore, v \in MemVals : CpuStoreByte(a, v, "last")
    \/ \E a \in AddrMemLoad : CpuLoadByte(a, "last")
    \/ \E a \in AddrMemLoadAddr : CpuLoadAddress(a, "last")
    \/ \E o \in {2, 3} : CpuStoreByte(IOBase + o, 0, "last")       \* AUXRAMRD
    \/ \E o \in {129, 130, 131} : CpuLoadByte(IOBase + o, "last")  \* $C081..$C083

SpecMem == InitWith(LoadedROM) /\ [][NextMem]_vars

----------------------------------------------------------------------------
(* Bank activation by the caller, with loads and stores of bytes and words *)

\* the banks activated and deactivated: a RAM bank, a ROM bank, and
\* DisplayPage2 (aux), which mmu.Init never registers
ApiBanks ==
    { BankRef(bankTypeMain, bankZeroStackRAM), BankRef(bankTypeMain, bankSystemDEFROM),
      BankRef(bankTypeAux, bankDisplayPage2) }

Accesses == {{read}, {write}, {read, write}}

\* $00FF, $0400, $FFFF
AddrApi == {255, 1024, 65535}

\* the words stored: $1234, $CDAB
ApiWords == {4660, 52651}

NextApi ==
    \/ \E b \in ApiBanks, acc \in Accesses : ApiActivateBank(b, acc, "last")
    \/ \E b \in ApiBanks, acc \in Accesses : ApiDeactivateBank(b, acc, "last")
    \/ \E a \in AddrApi : CpuLoadByte(a, "last")
    \/ \E a \in AddrApi : CpuStoreByte(a, 90, "last")
    \/ \E a \in AddrApi : CpuLoadAddress(a, "last")
    \/ \E a \in AddrApi, v \in ApiWords : CpuStoreAddress(a, v, "last")

SpecApi == InitWith(LoadedROM) /\ [][NextApi]_vars

----------------------------------------------------------------------------
(* Bank activation by the caller among soft-switch accesses: the page table *)

\* the banks activated and deactivated: two RAM banks, the aux entry of a ROM
\* bank, and DisplayPage2 (aux), which mmu.Init never registers
PageBanks ==
    { BankRef(bankTypeMain, bankHiRes2), BankRef(bankTypeMain, bankLangCardEFRAM),
      BankRef(bankTypeAux, bankSystemDEFROM), BankRef(bankTypeAux, bankDisplayPage2) }

\* $C000, $C001 (80STORE) stored; $C054, $C055 (PAGE2) loaded
AddrPagesStore == {IOBase, IOBase + 1}

AddrPagesLoad == {IOBase + 84, IOBase + 85}

NextPages ==
    \/ \E b \in PageBanks, acc \in Accesses : ApiActivateBank(b, acc, "last")
    \/ \E b \in PageBanks, acc \in Accesses : ApiDeactivateBank(b, acc, "last")
    \/ \E a \in AddrPagesStore : CpuStoreByte(a, 0, "last")
    \/ \E a \in AddrPagesLoad : CpuLoadByte(a, "last")

SpecPages == Init /\ [][NextPages]_vars

----------------------------------------------------------------------------
(* The keyboard: key presses and the strobe, whole runs from construction *)

\* the keys pressed: 'A' without and with bit 7
Keys == {65, 193}    \* $41, $C1

NextKbd ==
    \/ \E k \in Keys : KeyPress(k, "trace")
    \/ CpuLoadByte(IOBase, "trace")             \* $C000
    \/ CpuLoadByte(IOBase + 16, "trace")        \* $C010
    \/ CpuStoreByte(IOBase + 16, 0, "trace")

SpecKbd == Init /\ [][NextKbd]_vars

----------------------------------------------------------------------------
(* The $C07x window: IOUDIS, and the $C05x switches it gates *)

\* $C07E, $C07F
AddrC07x == {IOBase + 126, IOBase + 127}

\* $C050..$C053 (TEXT, MIXED) and $C05E, $C05F (DHIRES or ANNUNCIATOR3)
AddrC07xLoad == {IOBase + o : o \in {80, 81, 82, 83, 94, 95}}

NextC07x ==
    \/ \E a \in AddrC07x : CpuStoreByte(a, 0, "last")
    \/ \E a \in AddrC07x \cup AddrC07xLoad : CpuLoadByte(a, "last")

SpecC07x == Init /\ [][NextC07x]_vars

----------------------------------------------------------------------------
(* The display switches: loads and stores of $C050..$C057 *)

\* $C050..$C057: TEXT, MIXED, PAGE2, HIRES off/on
AddrC05xDisplay == {IOBase + o : o \in 80..87}

NextC05x ==
    \/ \E a \in AddrC05xDisplay : CpuLoadByte(a, "last")
    \/ \E a \in AddrC05xDisplay, v \in SwitchVals : CpuStoreByte(a, v, "last")

SpecC05x == Init /\ [][NextC05x]_vars

----------------------------------------------------------------------------
(* The annunciators and DHIRES under IOUDIS: $C058..$C05F and $C070..$C07F *)

\* $C058..$C05F
AddrC05xAnn == {IOBase + o : o \in 88..95}

\* $C070..$C07F
AddrC07xAll == {IOBase + o : o \in 112..127}

NextAnn ==
    \/ \E a \in AddrC05xAnn : CpuLoadByte(a, "last")
    \/ \E a \in AddrC05xAnn : CpuStoreByte(a, 0, "last")
    \/ \E a \in AddrC07xAll, v \in SwitchVals : CpuStoreByte(a, v, "last")

SpecAnn == Init /\ [][NextAnn]_vars

----------------------------------------------------------------------------
(* The $C01x window with a key latched: loads of $C010..$C01F *)

\* $C000, $C001 (80STORE) and $C008, $C009 (ALTZP)
AddrC01xStore == {IOBase + o : o \in {0, 1, 8, 9}}

NextC01x ==
    \/ \E k \in Keys : KeyPress(k, "last")
    \/ \E a \in AddrC01x : CpuLoadByte(a, "last")
    \/ \E a \in AddrC01xStore : CpuStoreByte(a, 0, "last")

SpecC01x == Init /\ [][NextC01x]_vars

----------------------------------------------------------------------------
(* The undecoded rows of the $C0xx window *)

\* the rows of the window no handler serves: $C02x..$C04x, $C06x, $C09x..$C0Fx
UndecodedRows == {2, 3, 4, 6} \cup 9..15

\* the first and the last address of every undecoded row
AddrUndecoded == {IOBase + 16 * row + o : row \in UndecodedRows, o \in {0, 15}}

\* $C000..$C003: 80STORE and AUXRAMRD off/on
AddrUndecodedSwitch == {IOBase + o : o \in 0..3}

NextUndecoded ==
    \/ \E a \in AddrUndecoded : CpuLoadByte(a, "last")
    \/ \E a \in AddrUndecoded, v \in SwitchVals : CpuStoreByte(a, v, "last")
    \/ \E a \in AddrUndecodedSwitch : CpuStoreByte(a, 0, "last")
    \/ CpuStoreByte(1024, 65, "last")      \* $0400

SpecUndecoded == Init /\ [][NextUndecoded]_vars

----------------------------------------------------------------------------
(* One switch of every update group, and switches of none *)

\* $C000/1 80STORE, $C008/9 ALTZP, $C00C/D 80COL
AddrGroupsStore == {IOBase + o : o \in {0, 1, 8, 9, 12, 13}}

\* $C050/1 TEXT, $C054/5 PAGE2, $C056/7 HIRES, $C081, $C083, $C08B language card
AddrGroupsLoad == {IOBase + o : o \in {80, 81, 84, 85, 86, 87, 129, 131, 139}}

NextGroups ==
    \/ \E a \in AddrGroupsStore : CpuStoreByte(a, 0, "last")
    \/ \E a \in AddrGroupsLoad : CpuLoadByte(a, "last")

SpecGroups == Init /\ [][NextGroups]_vars

----------------------------------------------------------------------------
(* The language-card RAM: stores and loads at $D000 and $E000 under both     *)
(* Dx banks and both variants                                                *)

\* $C083 (read and write RAM, bank 2) and $C08B (read and write RAM, bank 1)
AddrLCIsoLoad == {IOBase + 131, IOBase + 139}

\* $D000 and $E000
AddrLCIsoMem == {53248, 57344}

NextLCIso ==
    \/ \E a \in AddrLCIsoLoad : CpuLoadByte(a, "last")
    \/ \E a \in AddrAuxRW : CpuStoreByte(a, 0, "last")
    \/ \E a \in AddrLCIsoMem : CpuStoreByte(a, 170, "last")
    \/ \E a \in AddrLCIsoMem : CpuLoadByte(a, "last")

SpecLCIso == Init /\ [][NextLCIso]_vars

----------------------------------------------------------------------------
(* Switches turned on in every order: whole runs from construction *)

\* $C003 AUXRAMRD on, $C009 ALTZP on
AddrOrderStore == {IOBase + 3, IOBase + 9}

\* $C055 PAGE2 on
AddrOrderLoad == {IOBase + 85}

NextOrder ==
    \/ \E a \in AddrOrderStore : CpuStoreByte(a, 0, "trace")
    \/ \E a \in AddrOrderLoad : CpuLoadByte(a, "trace")

SpecOrder == Init /\ [][NextOrder]_vars

\* the machine as newApple2 leaves it, no ROM loaded
InitState ==
    [switches |-> {}, updates |-> {}, pages |-> InitPages,
     mainRAM |-> EmptyMem, auxRAM |-> EmptyMem, systemROM |-> EmptyMem,
     keydata |-> 0, keydown |-> FALSE, panic |-> FALSE]

\* the state the recorded CPU operation e leaves
applyOp(st, e) ==
    IF e.op = "load" THEN LoadByte(st, e.addr).st ELSE StoreByte(st, e.addr, e.v)

\* the state a sequence of CPU operations leaves
RECURSIVE replay(_, _)
replay(st, ops) ==
    IF ops = <<>> THEN st ELSE replay(applyOp(st, Head(ops)), Tail(ops))

----------------------------------------------------------------------------
(* Bytes, words and groups of bytes at the ends of banks, with the ROM loaded *)

\* $01FF, $BFFF, $FFFF: the last byte of the stack, of main RAM and of memory
AddrRange == {511, 49151, 65535}

\* $01FF, $FFFF
AddrRangeStore == {511, 65535}

\* the group of bytes stored, and its length
RangeBytes == <<52, 18>>    \* $34, $12

\* $C002..$C005, $C008, $C009: AUXRAMRD, AUXRAMWRT, ALTZP
AddrRangeSwitch == {IOBase + o : o \in {2, 3, 4, 5, 8, 9}}

NextRange ==
    \/ \E a \in AddrRangeSwitch : CpuStoreByte(a, 0, "last")
    \/ \E a \in AddrRange : CpuLoadByte(a, "last")
    \/ \E a \in AddrRange : CpuLoadAddress(a, "last")
    \/ \E a \in AddrRange : CpuLoadBytes(a, Len(RangeBytes), "last")
    \/ \E a \in AddrRangeStore : CpuStoreAddress(a, 4660, "last")
    \/ \E a \in AddrRangeStore : CpuStoreBytes(a, RangeBytes, "last")

SpecRange == InitWith(LoadedROM) /\ [][NextRange]_vars

----------------------------------------------------------------------------
(* C1: the language-card truth table *)

\* the access the table gives LangCardEFRAM in row n
rowEFRAM(n) ==
    (IF n % 4 \in {0, 3} THEN {read} ELSE {}) \cup (IF n % 2 = 1 THEN {write} ELSE {})

\* the access the table gives LangCardDX1RAM and LangCardDX2RAM in row n
rowDX1(n) == IF bitOf(n, 3) = 1 THEN rowEFRAM(n) ELSE {}

rowDX2(n) == IF bitOf(n, 3) = 0 THEN rowEFRAM(n) ELSE {}

\* the access the table gives SystemDEFROM in row n
rowDEFROM(n) == {read, write} \ rowEFRAM(n)

AuxOff == ioSwitchAUXRAMRD \notin switches /\ ioSwitchAUXRAMWRT \notin switches

\* no language-card reconfiguration has run: $D0's write entry is still nil
LCUntouched == page(208).write = nilBank

\* C1 as stated: with AUXRAMRD and AUXRAMWRT off, right after load_byte($C080+n)
\* the bank access of (EFRAM main, DX1 main, DX2 main, DEFROM) is row n of the
\* table, in every reachable state, the freshly constructed one included.
C1_Original ==
    \A n \in 0..15 :
        (Did("load", IOBase + 128 + n) /\ AuxOff) =>
            /\ GetBankAccess(pages, bankLangCardEFRAM, bankTypeMain) = rowEFRAM(n)
            /\ GetBankAccess(pages, bankLangCardDX1RAM, bankTypeMain) = rowDX1(n)
            /\ GetBankAccess(pages, bankLangCardDX2RAM, bankTypeMain) = rowDX2(n)
            /\ GetBankAccess(pages, bankSystemDEFROM, bankTypeMain) = rowDEFROM(n)

\* C1 (amended): with AUXRAMRD and AUXRAMWRT off, right after load_byte($C080+n)
\* EFRAM, DX1 and DX2 have the access of row n and DEFROM has R iff EFRAM lacks
\* R; DEFROM has W iff EFRAM lacks W, except while no language-card
\* reconfiguration has run since construction, which is possible only for
\* n = $A and n = $E with all three LC switches off: then the write entries of
\* $D0..$FF are still nil and DEFROM has R only.
C1_LCTruthTable ==
    \A n \in 0..15 :
        (Did("load", IOBase + 128 + n) /\ AuxOff) =>
            /\ GetBankAccess(pages, bankLangCardEFRAM, bankTypeMain) = rowEFRAM(n)
            /\ GetBankAccess(pages, bankLangCardDX1RAM, bankTypeMain) = rowDX1(n)
            /\ GetBankAccess(pages, bankLangCardDX2RAM, bankTypeMain) = rowDX2(n)
            /\ GetBankAccess(pages, bankSystemDEFROM, bankTypeMain) =
                   IF LCUntouched THEN {read} ELSE rowDEFROM(n)
            /\ LCUntouched =>
                   /\ n \in {10, 14}
                   /\ \A p \in 208..255 : page(p).write = nilBank
                   /\ switches \cap {ioSwitchLCRAMRD, ioSwitchLCRAMWRT, ioSwitchLCBANK2} = {}

\* a load of $C08B has given bank 1 reads and writes, MainRAM (main) serving
\* $0200
C1_Witness ==
    /\ Did("load", IOBase + 139)
    /\ AuxOff
    /\ ~LCUntouched
    /\ GetBankAccess(pages, bankLangCardDX1RAM, bankTypeMain) = {read, write}
    /\ GetBankAccess(pages, bankMainRAM, bankTypeMain) = {read, write}
    /\ page(2).read = BankRef(bankTypeMain, bankMainRAM)

----------------------------------------------------------------------------
(* C2: the language-card decode *)

LCSwitches == {ioSwitchLCRAMRD, ioSwitchLCRAMWRT, ioSwitchLCBANK2}

\* C2: after load_byte($C000+o), o in $80..$8F, LCRAMRD = ~(o[0] XOR o[1]),
\* LCRAMWRT = o[0], LCBANK2 = ~o[3], whatever they were before and whatever bit
\* 2 is; no other switch changes; the load returns $A0.
C2_LCDecode ==
    [][\A o \in 128..143 :
          (hist' # <<>> /\ hist'[Len(hist')].op = "load"
                        /\ hist'[Len(hist')].addr = IOBase + o) =>
              /\ (ioSwitchLCRAMRD \in switches') <=> (bitOf(o, 0) = bitOf(o, 1))
              /\ (ioSwitchLCRAMWRT \in switches') <=> (bitOf(o, 0) = 1)
              /\ (ioSwitchLCBANK2 \in switches') <=> (bitOf(o, 3) = 0)
              /\ switches' \ LCSwitches = switches \ LCSwitches
              /\ hist'[Len(hist')].ret = 160]_vars

\* a load of $C087 (bit 2 set) with AUXRAMWRT on has set all three switches
C2_Witness ==
    /\ Did("load", IOBase + 135)
    /\ last.ret = 160
    /\ switches = LCSwitches \cup {ioSwitchAUXRAMWRT}

----------------------------------------------------------------------------
(* C3: the C00x/C01x round trip *)

\* the address that reads back the switch written at $C000+2i and $C000+2i+1
readBack(i) ==
    CASE i = 0 -> IOBase + 24    \* 80STORE    $C018
      [] i = 1 -> IOBase + 19    \* AUXRAMRD   $C013
      [] i = 2 -> IOBase + 20    \* AUXRAMWRT  $C014
      [] i = 3 -> IOBase + 21    \* CXROM      $C015
      [] i = 4 -> IOBase + 22    \* ALTZP      $C016
      [] i = 5 -> IOBase + 23    \* C3ROM      $C017
      [] i = 6 -> IOBase + 31    \* 80COL      $C01F
      [] i = 7 -> IOBase + 30    \* ALTCHARSET $C01E

\* C3: store_byte($C000+w, v) followed by load_byte of the read address of w's
\* switch returns $80 if w is odd and $00 if w is even, whatever v is.
C3_RoundTrip ==
    [][\A w \in 0..15 :
          (/\ Did("store", IOBase + w)
           /\ hist'[Len(hist')].op = "load"
           /\ hist'[Len(hist')].addr = readBack(w \div 2)) =>
              hist'[Len(hist')].ret = IF w % 2 = 1 THEN 128 ELSE 0]_vars

\* $C01F read back $80 with 80COL on and ALTCHARSET off
C3_Witness ==
    /\ Did("load", IOBase + 31)
    /\ last.ret = 128
    /\ ioSwitch80COL \in switches
    /\ ioSwitchALTCHARSET \notin switches

----------------------------------------------------------------------------
(* C10: setting a switch to the value it holds *)

IOAccess(e) == e.op \in {"load", "store"} /\ e.addr \div 256 = 192

\* C10: a $C0xx load or store that leaves every switch at the value it held
\* leaves every read and write entry of the page table as it was.
C10_NoOpSwitch ==
    [][(IOAccess(hist'[Len(hist')]) /\ switches' = switches) => pages' = pages]_vars

\* $C003 stored twice running, with the language-card RAM switched in: AUXRAMRD
\* is on and the second store changed nothing
C10_Witness ==
    /\ Len(hist) = 2
    /\ hist[1].op = "store" /\ hist[1].addr = IOBase + 3
    /\ hist[2].op = "store" /\ hist[2].addr = IOBase + 3
    /\ ioSwitchAUXRAMRD \in switches
    /\ page(2).read = BankRef(bankTypeAux, bankMainRAM)
    /\ {ioSwitchLCRAMRD, ioSwitchLCRAMWRT, ioSwitchLCBANK2} \subseteq switches

----------------------------------------------------------------------------
(* C4: the zero page under ALTZP *)

\* the run so far starts with these operations (loads are matched on address)
Starts(ops) ==
    /\ Len(hist) >= Len(ops)
    /\ \A i \in 1..Len(ops) :
          /\ hist[i].op = ops[i].op
          /\ hist[i].addr = ops[i].addr
          /\ ops[i].op = "store" => hist[i].v = ops[i].v

StoreOp(a, v) == Op("store", a, v, 0)

LoadOp(a) == Op("load", a, 0, 0)

\* C4: from construction, after store_byte($0000, $5A) and store_byte($C009, v)
\* load_byte($0000) returns the aux zero-page byte $00; after a following
\* store_byte($C008, v) it returns $5A; and a byte stored at $0000 with ALTZP
\* off is not changed by a store to $0000 made with ALTZP on.
C4_AltZP ==
    /\ Starts(<<StoreOp(0, 90), StoreOp(IOBase + 9, 0), LoadOp(0)>>) =>
           hist[3].ret = 0
    /\ Starts(<<StoreOp(0, 90), StoreOp(IOBase + 9, 0), LoadOp(0),
                StoreOp(IOBase + 8, 0), LoadOp(0)>>) =>
           hist[5].ret = 90
    /\ \A v, w \in ZPVals :
           Starts(<<StoreOp(0, v), StoreOp(IOBase + 9, 0), StoreOp(0, w),
                    StoreOp(IOBase + 8, 0), LoadOp(0)>>) =>
               hist[5].ret = v

----------------------------------------------------------------------------
(* C5: $2000 under AUXRAMRD *)

\* C5: from construction, after store_byte($2000, $AA) and store_byte($C003, 0)
\* load_byte($2000) returns $00; after a following store_byte($C002, 0) it
\* returns $AA.
C5_AuxRdScenario ==
    /\ Starts(<<StoreOp(8192, 170), StoreOp(IOBase + 3, 0), LoadOp(8192)>>) =>
           hist[3].ret = 0
    /\ Starts(<<StoreOp(8192, 170), StoreOp(IOBase + 3, 0), LoadOp(8192),
                StoreOp(IOBase + 2, 0), LoadOp(8192)>>) =>
           hist[5].ret = 170

\* the whole scenario has run: $00 was read from aux, then $AA from main
C5_Witness ==
    /\ hist = <<StoreOp(8192, 170), StoreOp(IOBase + 3, 0), Op("load", 8192, 0, 0),
                StoreOp(IOBase + 2, 0), Op("load", 8192, 0, 170)>>
    /\ memGet(mainRAM, 8192) = 170
    /\ memGet(auxRAM, 8192) = 0
    /\ page(32).read = BankRef(bankTypeMain, bankMainRAM)

----------------------------------------------------------------------------
(* C6: the 80STORE overlay *)

\* the bank type the overlay takes from PAGE2
overlayType == IF ioSwitchPAGE2 \in switches THEN bankTypeAux ELSE bankTypeMain

\* C6: while 80STORE is on, every page of $0400..$07FF has its read and its
\* write entry equal to DisplayPage1 aux when PAGE2 is on and DisplayPage1 main
\* when it is off, whatever AUXRAMRD and AUXRAMWRT are; so a store_byte to
\* $0400..$07FF changes aux RAM iff PAGE2 is on (and main RAM iff it is off).
C6_80StoreOverlay ==
    /\ [](ioSwitch80STORE \in switches =>
             \A p \in 4..7 :
                 /\ page(p).read = BankRef(overlayType, bankDisplayPage1)
                 /\ page(p).write = BankRef(overlayType, bankDisplayPage1))
    /\ [][\A a \in AddrText1 :
             (ioSwitch80STORE \in switches /\ hist' = <<StoreOp(a, 65)>>) =>
                 IF ioSwitchPAGE2 \in switches
                 THEN auxRAM' = memSet(auxRAM, a, 65) /\ mainRAM' = mainRAM
                 ELSE mainRAM' = memSet(mainRAM, a, 65) /\ auxRAM' = auxRAM]_vars

\* with 80STORE and PAGE2 on and AUXRAMWRT off, a store to $0400 went to aux RAM
C6_Witness ==
    /\ Did("store", 1024)
    /\ {ioSwitch80STORE, ioSwitchPAGE2} \subseteq switches
    /\ ioSwitchAUXRAMWRT \notin switches
    /\ memGet(auxRAM, 1024) = 65
    /\ memGet(mainRAM, 1024) = 0
    /\ page(4).write = BankRef(bankTypeAux, bankDisplayPage1)
    /\ page(8).write = BankRef(bankTypeMain, bankMainRAM)

----------------------------------------------------------------------------
(* C7: load_address at the end of a page *)

\* the byte at address x as bank b holds it
byteAt(b, x) == memGet(sliceOf(State, b), bankAt(b).lo + (x - bankAt(b).baseAddr))

\* the address of the high byte of the word at a
highOf(a) == IF a % 256 = 255 THEN a - 255 ELSE a + 1

\* the addresses of AddrMemLoadAddr outside the soft-switch window
AddrMemWord == {a \in AddrMemLoadAddr : a \div 256 # 192}

\* C7: where a's page has a read entry, load_address(a) returns lo | hi<<8, lo
\* the byte at a and hi the byte at a+1, or at a-$FF when a ends its page, both
\* read through the bank that is the read entry of a's page; in the soft-switch
\* window the two bytes are the two loads' results, $C082 before $C083.
C7_LoadAddressWrap ==
    /\ \A a \in AddrMemWord :
           (Did("loadaddr", a) /\ page(a \div 256).read # nilBank) =>
               last.ret = byteAt(page(a \div 256).read, a)
                          + 256 * byteAt(page(a \div 256).read, highOf(a))
    /\ Did("loadaddr", IOBase + 130) =>
           /\ last.ret = 160 + 256 * 160
           /\ LCSwitches \subseteq switches

\* with $CD at $20FF and $AB at $2000, load_address($20FF) returned $ABCD
C7_Witness ==
    /\ Did("loadaddr", 8447)
    /\ memGet(mainRAM, 8447) = 205
    /\ memGet(mainRAM, 8192) = 171
    /\ page(32).read = BankRef(bankTypeMain, bankMainRAM)
    /\ last.ret = 43981

----------------------------------------------------------------------------
(* C8: store_byte outside the soft-switch window *)

isRAM(b) == b # nilBank /\ bankAt(b).accessor = "ramBankAccessor"

\* what store_byte(a, v) does to memory, the page table and the switches
StoreEffect(a, v) ==
    LET w == page(a \div 256).write
        i == bankAt(w).lo + (a - bankAt(w).baseAddr)
    IN  /\ pages' = pages
        /\ switches' = switches
        /\ updates' = updates
        /\ systemROM' = systemROM
        /\ IF isRAM(w)
           THEN IF bankAt(w).ram = "mainRAM"
                THEN mainRAM' = memSet(mainRAM, i, v) /\ auxRAM' = auxRAM
                ELSE auxRAM' = memSet(auxRAM, i, v) /\ mainRAM' = mainRAM
           ELSE mainRAM' = mainRAM /\ auxRAM' = auxRAM

\* C8 as stated: the load that follows store_byte(a, v) returns v whenever the
\* page's read entry is the same bank as its write entry.
C8_Original ==
    [][\A a \in AddrMemStore :
          (/\ Did("store", a)
           /\ hist' = <<Op("load", a, 0, hist'[1].ret)>>
           /\ page(a \div 256).read = page(a \div 256).write) =>
              hist'[1].ret = last.v]_vars

\* C8 (amended): for a outside $C000..$C0FF, store_byte(a, v) changes exactly
\* the RAM byte backing a in the page's write bank to v when the write entry is
\* a RAM bank, and nothing when it is nil or ROM; it never changes the page
\* table or a switch; and when the write entry is a RAM bank and the read entry
\* is the same bank, an immediately following load_byte(a) returns v.
C8_StoreByte ==
    [][\A a \in AddrMemStore :
          /\ \A v \in MemVals : hist' = <<StoreOp(a, v)>> => StoreEffect(a, v)
          /\ (/\ Did("store", a)
              /\ hist' = <<Op("load", a, 0, hist'[1].ret)>>
              /\ isRAM(page(a \div 256).write)
              /\ page(a \div 256).read = page(a \div 256).write) =>
                 hist'[1].ret = last.v]_vars

\* $AB has been stored at $D000 with bank 2 of the language card writable
C8_Witness ==
    /\ hist = <<StoreOp(53248, 171)>>
    /\ page(208).write = BankRef(bankTypeMain, bankLangCardDX2RAM)
    /\ memGet(mainRAM, 53248) = 171

----------------------------------------------------------------------------
(* C9: load_byte outside the soft-switch window *)

\* C9: for a with a & $FF00 # $C000, load_byte(a) leaves RAM, ROM, the
\* switches, the pending updates and the page table as they were.
C9_LoadByteFrame ==
    [][\A a \in AddrMemLoad :
          (hist' # <<>> /\ hist'[1].op = "load" /\ hist'[1].addr = a) =>
              UNCHANGED <<mainRAM, auxRAM, systemROM, switches, updates, pages>>]_vars

\* $AB has been loaded from $D000, bank 2 of the language card being read
C9_Witness ==
    /\ Did("load", 53248)
    /\ last.ret = 171
    /\ page(208).read = BankRef(bankTypeMain, bankLangCardDX2RAM)
    /\ memGet(mainRAM, 53248) = 171

----------------------------------------------------------------------------
(* C11: accesses to unmapped pages *)

\* nothing but the record of the operation changes, and nothing panics
NothingHappens ==
    /\ UNCHANGED <<mainRAM, auxRAM, systemROM, switches, updates, pages>>
    /\ ~panic'

\* C11: load_byte and load_address on a page whose read entry is nil return 0,
\* store_byte and store_address on a page whose write entry is nil change no
\* memory, no switch and no page-table entry, and none of them fails.
C11_UnmappedAccess ==
    [][\A a \in AddrApi :
          /\ (/\ hist' # <<>>
              /\ hist'[1].op \in {"load", "loadaddr"}
              /\ hist'[1].addr = a
              /\ page(a \div 256).read = nilBank) =>
                 hist'[1].ret = 0 /\ NothingHappens
          /\ (/\ hist' # <<>>
              /\ hist'[1].op \in {"store", "storeaddr"}
              /\ hist'[1].addr = a
              /\ page(a \div 256).write = nilBank) =>
                 NothingHappens]_vars

\* load_address($00FF) returned 0 with the zero page unmapped for reads, $5A
\* being at $00FF
C11_Witness ==
    /\ Did("loadaddr", 255)
    /\ page(0).read = nilBank
    /\ memGet(mainRAM, 255) = 90
    /\ last.ret = 0
    /\ ~panic

----------------------------------------------------------------------------
(* C12: the page-range invariant *)

\* page p lies within the range of the bank b
withinBank(b, p) ==
    /\ bankAt(b).baseAddr <= p * 256
    /\ p * 256 + 255 < bankAt(b).baseAddr + bankAt(b).size

\* C12: each page's read entry and write entry is nil or a bank b with
\* b.base <= page*256 and page*256 + 255 < b.base + b.size.
C12_PageRange ==
    \A p \in 0..255 :
        LET e == page(p)
        IN  /\ e.read # nilBank => withinBank(e.read, p)
            /\ e.write # nilBank => withinBank(e.write, p)

\* HiRes2 has been activated and its reads deactivated again, the aux entry of
\* SystemDEFROM serves the reads of $FF00, and $E000 is written through EFRAM
C12_Witness ==
    /\ page(64).read = nilBank
    /\ page(127).write = BankRef(bankTypeMain, bankHiRes2)
    /\ page(128).write = BankRef(bankTypeMain, bankMainRAM)
    /\ page(255).read = BankRef(bankTypeAux, bankSystemDEFROM)
    /\ page(224).write = BankRef(bankTypeMain, bankLangCardEFRAM)

----------------------------------------------------------------------------
(* C15: store_address against load_address *)

\* the index in its memory of the byte bank b holds for address x
indexIn(b, x) == bankAt(b).lo + (x - bankAt(b).baseAddr)

\* the two bytes of v go to a and to the high byte's address in bank b's memory
WordStored(b, a, v) ==
    LET put(mem) == memSet(memSet(mem, indexIn(b, a), v % 256),
                           indexIn(b, highOf(a)), v \div 256)
    IN  /\ systemROM' = systemROM
        /\ IF bankAt(b).ram = "mainRAM"
           THEN mainRAM' = put(mainRAM) /\ auxRAM' = auxRAM
           ELSE auxRAM' = put(auxRAM) /\ mainRAM' = mainRAM

\* C15: where a's page has the same RAM bank as read and write entry,
\* store_address(a, v) writes the low byte of v at a and the high byte at a+1,
\* or at a-$FF when a ends its page, changes no other byte, and an immediately
\* following load_address(a) returns v.
C15_StoreAddress ==
    [][\A a \in AddrApi :
          LET b == page(a \div 256).write
          IN  (isRAM(b) /\ page(a \div 256).read = b) =>
                  /\ \A v \in ApiWords :
                         hist' = <<Op("storeaddr", a, v, 0)>> => WordStored(b, a, v)
                  /\ (/\ Did("storeaddr", a)
                      /\ hist' # <<>>
                      /\ hist'[1].op = "loadaddr"
                      /\ hist'[1].addr = a) =>
                         hist'[1].ret = last.v]_vars

\* $CDAB has been stored at $00FF: $AB is at $00FF and $CD at $0000
C15_Witness ==
    /\ hist = <<Op("storeaddr", 255, 52651, 0)>>
    /\ page(0).read = BankRef(bankTypeMain, bankZeroStackRAM)
    /\ page(0).write = BankRef(bankTypeMain, bankZeroStackRAM)
    /\ memGet(mainRAM, 255) = 171
    /\ memGet(mainRAM, 0) = 205

----------------------------------------------------------------------------
(* C13: the configuration construction leaves *)

\* the entry C13 lists for page p
initialEntry(p) ==
    CASE p \in 0..1 ->
            [read |-> BankRef(bankTypeMain, bankZeroStackRAM),
             write |-> BankRef(bankTypeMain, bankZeroStackRAM)]
      [] p \in 4..7 ->
            [read |-> BankRef(bankTypeMain, bankDisplayPage1),
             write |-> BankRef(bankTypeMain, bankDisplayPage1)]
      [] p \in (2..3) \cup (8..191) ->
            [read |-> BankRef(bankTypeMain, bankMainRAM),
             write |-> BankRef(bankTypeMain, bankMainRAM)]
      [] p = 192 ->
            [read |-> BankRef(bankTypeMain, bankIOSwitches),
             write |-> BankRef(bankTypeMain, bankIOSwitches)]
      [] p \in 193..207 ->
            [read |-> BankRef(bankTypeMain, bankSystemCXROM), write |-> nilBank]
      [] p \in 208..255 ->
            [read |-> BankRef(bankTypeMain, bankSystemDEFROM), write |-> nilBank]

\* C13: right after construction all soft switches are off and the page table
\* is: $00..$01 ZeroStackRAM main R/W; $02..$BF MainRAM main R/W except
\* $04..$07, DisplayPage1 main R/W; $C0 IOSwitches R/W; $C1..$CF SystemCXROM for
\* reads, no write entry; $D0..$FF SystemDEFROM for reads, no write entry.
C13_InitialConfiguration ==
    hist = <<>> =>
        /\ switches = {}
        /\ \A p \in 0..255 : page(p) = initialEntry(p)

\* the machine as constructed: nothing has run, no update is pending, RAM is
\* zero and the soft-switch window is mapped
C13_Witness ==
    /\ hist = <<>>
    /\ updates = {}
    /\ mainRAM = EmptyMem
    /\ page(192).read = BankRef(bankTypeMain, bankIOSwitches)

----------------------------------------------------------------------------
(* C14: no reconfiguration is left pending *)

\* C14: after every load_byte or store_byte returns, the pending-update mask
\* is 0: every switch change the access made has been applied to the page table.
C14_NoPendingUpdates ==
    (hist # <<>> /\ last.op \in {"load", "store"}) => updates = {}

\* a load of $C083 on the machine with AUXRAMRD on has switched in the aux
\* language-card RAM for reads, and nothing is pending
C14_Witness ==
    /\ Did("load", IOBase + 131)
    /\ switches = LCSwitches \cup {ioSwitchAUXRAMRD}
    /\ page(208).read = BankRef(bankTypeAux, bankLangCardDX2RAM)
    /\ page(224).write = BankRef(bankTypeMain, bankLangCardEFRAM)
    /\ updates = {}

----------------------------------------------------------------------------
(* C16: the keyboard strobe *)

\* the positions before i at which a key was set
keySets(i) == {j \in 1..(i - 1) : hist[j].op = "setkey"}

\* the position of the last set_key before position i
lastKeySet(i) == CHOOSE j \in keySets(i) : \A m \in keySets(i) : m <= j

\* $C010 was loaded or stored between positions j and i
strobeCleared(j, i) == \E m \in (j + 1)..(i - 1) : hist[m].addr = IOBase + 16

\* the key data after position i - 1, a key having been set before
keyDataAt(i) ==
    LET j == lastKeySet(i)
    IN  IF strobeCleared(j, i) THEN hist[j].v % 128 ELSE (hist[j].v % 128) + 128

\* C16: after set_key(k), load_byte($C000) returns k | $80, again and again;
\* after a load_byte($C010) or a store_byte($C010, v) it returns k & $7F until
\* the next set_key; loads of $C000 never change the key data.
C16_KeyStrobe ==
    /\ \A i \in 1..Len(hist) :
           (hist[i].op = "load" /\ hist[i].addr = IOBase /\ keySets(i) # {}) =>
               hist[i].ret = keyDataAt(i)
    /\ keySets(Len(hist) + 1) # {} => keydata = keyDataAt(Len(hist) + 1)

\* 'A' was pressed, read twice with the strobe, the strobe cleared at $C010,
\* and 'A' read without it
C16_Witness ==
    hist = <<Op("setkey", 0, 65, 0), Op("load", IOBase, 0, 193), Op("load", IOBase, 0, 193),
             Op("load", IOBase + 16, 0, 0), Op("load", IOBase, 0, 65)>>

----------------------------------------------------------------------------
(* C17: the range of HiRes2 *)

\* the MainRAM banks AUXRAMRD and AUXRAMWRT select in the switch set sw
mainRAMEntry(sw) ==
    [read |-> BankRef(IF ioSwitchAUXRAMRD \in sw THEN bankTypeAux ELSE bankTypeMain,
                      bankMainRAM),
     write |-> BankRef(IF ioSwitchAUXRAMWRT \in sw THEN bankTypeAux ELSE bankTypeMain,
                       bankMainRAM)]

\* a bank mapped for reads and writes
bothEntry(typ, id) == [read |-> BankRef(typ, id), write |-> BankRef(typ, id)]

\* C17: right after an access that leaves 80STORE off, PAGE2 on and HIRES on,
\* the pages whose read and write entry is HiRes2 (main) are exactly $40..$5F,
\* and $60..$7F are served by MainRAM, of the type AUXRAMRD selects for reads
\* and of the type AUXRAMWRT selects for writes.
C17_HiRes2Range ==
    (/\ hist # <<>>
     /\ ioSwitch80STORE \notin switches
     /\ ioSwitchPAGE2 \in switches
     /\ ioSwitchHIRES \in switches) =>
        /\ {p \in 0..255 : page(p) = bothEntry(bankTypeMain, bankHiRes2)} = 64..95
        /\ \A p \in 96..127 : page(p) = mainRAMEntry(switches)

----------------------------------------------------------------------------
(* C18: loads of $C07E and $C07F *)

\* C18: load_byte($C07E) returns $80 if IOUDIS is on and $00 otherwise,
\* load_byte($C07F) returns $80 if DHIRES is on and $00 otherwise, and after
\* either load VBLINT is off.
C18_C07xRead ==
    /\ Did("load", IOBase + 126) =>
           /\ last.ret = IF ioSwitchIOUDIS \in switches THEN 128 ELSE 0
           /\ ioSwitchVBLINT \notin switches
    /\ Did("load", IOBase + 127) =>
           /\ last.ret = IF ioSwitchDHIRES \in switches THEN 128 ELSE 0
           /\ ioSwitchVBLINT \notin switches

----------------------------------------------------------------------------
(* C19: stores to $C080..$C08F *)

\* C19: a store_byte to $C080..$C08F leaves all switches, the page table and
\* all memory as they were.
C19_C08xWrite ==
    [][\A a \in AddrC08x :
          (hist' # <<>> /\ hist'[1].op = "store" /\ hist'[1].addr = a) =>
              UNCHANGED <<switches, updates, pages, mainRAM, auxRAM, systemROM>>]_vars

\* $C081 has been stored with LCRAMRD, LCRAMWRT and LCBANK2 on, which a load of
\* $C081 would have changed; bank 2 is still read
C19_Witness ==
    /\ Did("store", IOBase + 129)
    /\ LCSwitches \subseteq switches
    /\ page(208).read = BankRef(bankTypeMain, bankLangCardDX2RAM)

----------------------------------------------------------------------------
(* C20: the lower 48K as a function of the switches *)

\* the switches the reconfiguration of $0200..$BFFF reads
SystemRAMSwitches ==
    {ioSwitchAUXRAMRD, ioSwitchAUXRAMWRT, ioSwitch80STORE, ioSwitchPAGE2, ioSwitchHIRES}

\* the entry page p of $0200..$BFFF has under the switch set sw: the overlay
\* bank selected by 80STORE, PAGE2 and HIRES where p is in its range, else
\* MainRAM of the types AUXRAMRD and AUXRAMWRT select
systemRAMEntry(sw, p) ==
    LET bt == IF ioSwitchPAGE2 \in sw THEN bankTypeAux ELSE bankTypeMain
    IN  IF ioSwitch80STORE \in sw
        THEN CASE p \in 4..7 -> bothEntry(bt, bankDisplayPage1)
               [] p \in 32..63 /\ ioSwitchHIRES \in sw -> bothEntry(bt, bankHiRes1)
               [] OTHER -> mainRAMEntry(sw)
        ELSE CASE p \in 4..7 /\ ioSwitchPAGE2 \notin sw ->
                      bothEntry(bankTypeMain, bankDisplayPage1)
               [] p \in 8..11 /\ ioSwitchPAGE2 \in sw ->
                      bothEntry(bankTypeMain, bankDisplayPage2)
               [] p \in 32..63 /\ ioSwitchHIRES \in sw /\ ioSwitchPAGE2 \notin sw ->
                      bothEntry(bankTypeMain, bankHiRes1)
               [] p \in 64..95 /\ ioSwitchHIRES \in sw /\ ioSwitchPAGE2 \in sw ->
                      bothEntry(bankTypeMain, bankHiRes2)
               [] OTHER -> mainRAMEntry(sw)

\* C20: right after an access that changes AUXRAMRD, AUXRAMWRT, 80STORE, PAGE2
\* or HIRES, every page of $0200..$BFFF outside the overlay banks the switches
\* select has read entry MainRAM of AUXRAMRD's type and write entry MainRAM of
\* AUXRAMWRT's type, the selected overlay banks are mapped R/W over their
\* ranges, and no overlay bank of an earlier setting remains.
C20_SystemRAMRefinement ==
    [][(switches' \cap SystemRAMSwitches # switches \cap SystemRAMSwitches) =>
           \A p \in 2..191 : pageEntry(pages', p) = systemRAMEntry(switches', p)]_vars

----------------------------------------------------------------------------
(* C21: $D000..$FFFF as a function of the switches *)

\* the switches the reconfiguration of $D000..$FFFF reads
LCRAMSwitches ==
    {ioSwitchLCRAMRD, ioSwitchLCRAMWRT, ioSwitchLCBANK2, ioSwitchAUXRAMRD, ioSwitchAUXRAMWRT}

\* the bank serving page p of $D0..$FF in variant typ when the language card's
\* RAM is selected under the switch set sw
lcRAMBank(sw, typ, p) ==
    IF p < 224
    THEN BankRef(typ, IF ioSwitchLCBANK2 \in sw THEN bankLangCardDX2RAM
                                               ELSE bankLangCardDX1RAM)
    ELSE BankRef(typ, bankLangCardEFRAM)

\* the entry page p of $D0..$FF has under the switch set sw
lcEntry(sw, p) ==
    [read |-> IF ioSwitchLCRAMRD \in sw
              THEN lcRAMBank(sw, IF ioSwitchAUXRAMRD \in sw THEN bankTypeAux
                                                            ELSE bankTypeMain, p)
              ELSE BankRef(bankTypeMain, bankSystemDEFROM),
     write |-> IF ioSwitchLCRAMWRT \in sw
               THEN lcRAMBank(sw, IF ioSwitchAUXRAMWRT \in sw THEN bankTypeAux
                                                              ELSE bankTypeMain, p)
               ELSE BankRef(bankTypeMain, bankSystemDEFROM)]

\* C21: right after an access that changes LCRAMRD, LCRAMWRT, LCBANK2, AUXRAMRD
\* or AUXRAMWRT, the read entry of $D0..$DF is the selected Dx bank and of
\* $E0..$FF LangCardEFRAM, both of AUXRAMRD's type, if LCRAMRD is on, else
\* SystemDEFROM for all of $D0..$FF; the write entries likewise by LCRAMWRT and
\* AUXRAMWRT.
C21_LCRAMReconfiguration ==
    [][(switches' \cap LCRAMSwitches # switches \cap LCRAMSwitches) =>
           \A p \in 208..255 : pageEntry(pages', p) = lcEntry(switches', p)]_vars

\* a load of $C08B (read RAM, write RAM, bank 1) with AUXRAMRD on and AUXRAMWRT
\* off: bank 1 is read in aux and written in main
C21_Witness ==
    /\ Did("load", IOBase + 139)
    /\ ioSwitchAUXRAMRD \in switches
    /\ ioSwitchAUXRAMWRT \notin switches
    /\ page(208) = [read |-> BankRef(bankTypeAux, bankLangCardDX1RAM),
                    write |-> BankRef(bankTypeMain, bankLangCardDX1RAM)]
    /\ page(224) = [read |-> BankRef(bankTypeAux, bankLangCardEFRAM),
                    write |-> BankRef(bankTypeMain, bankLangCardEFRAM)]

----------------------------------------------------------------------------
(* C22: pages $00 and $01 follow ALTZP *)

\* C22: in every state reached by CPU loads and stores, pages $00 and $01 have
\* read and write entry ZeroStackRAM (aux) when ALTZP is on and ZeroStackRAM
\* (main) when it is off.
C22_ZeroStackMapping ==
    \A p \in {0, 1} :
        page(p) = bothEntry(IF ioSwitchALTZP \in switches THEN bankTypeAux ELSE bankTypeMain,
                            bankZeroStackRAM)

\* ALTZP has been turned on, off and on again, and $0000 stored since
C22_Witness ==
    /\ Starts(<<StoreOp(IOBase + 9, 0), StoreOp(IOBase + 8, 0), StoreOp(IOBase + 9, 0)>>)
    /\ Len(hist) > 3
    /\ last.op = "store" /\ last.addr = 0
    /\ ioSwitchALTZP \in switches
    /\ page(1).write = BankRef(bankTypeAux, bankZeroStackRAM)

----------------------------------------------------------------------------
(* C23: what ActivateBank leaves in the page table *)

\* the pages of bank b serve it for the accesses in acc, in the table pg
servedBy(pg, b, acc) ==
    \A p \in bankPages(b) :
        LET e == pageEntry(pg, p)
        IN  /\ read \in acc => e.read = b
            /\ write \in acc => e.write = b

\* C23: after ActivateBank(id, variant, access) returns, every page of the
\* bank's range has this bank as read entry if access includes read and as
\* write entry if access includes write.
C23_ActivatePostcondition ==
    [][\A b \in PageBanks, acc \in Accesses :
          ApiActivateBank(b, acc, "last") => servedBy(pages', b, acc)]_vars

----------------------------------------------------------------------------
(* C24: what DeactivateBank clears *)

\* the entry e of page p after bank b is deactivated for acc: null where e
\* points at b, p is in b's range and the entry is selected, else as it was
deactivated(e, b, acc, p) ==
    [read |-> IF inBank(b, p) /\ read \in acc /\ e.read = b THEN nilBank ELSE e.read,
     write |-> IF inBank(b, p) /\ write \in acc /\ e.write = b THEN nilBank ELSE e.write]

\* C24: DeactivateBank(id, variant, access) sets to null exactly the read and
\* write entries of pages in the bank's range that point at this bank and are
\* selected by access; entries pointing at another bank, entries not selected,
\* and pages outside the range stay as they were.
C24_DeactivateGuard ==
    [][(hist'[1].op = "deactivate") =>
           \A b \in PageBanks, acc \in Accesses :
               ApiDeactivateBank(b, acc, "last") =>
                   \* every run of pages, by its first page
                   \A p \in DOMAIN pages :
                       pages'[p] = deactivated(pages[p], b, acc, p)]_vars

\* SystemDEFROM (aux) has been deactivated for reads: $D0..$DF lost their read
\* entry, kept the write entry, and $E0..$FF still read LangCardEFRAM (main)
C24_Witness ==
    /\ Did("deactivate", 0)
    /\ page(208) = [read |-> nilBank, write |-> BankRef(bankTypeAux, bankSystemDEFROM)]
    /\ page(224).read = BankRef(bankTypeMain, bankLangCardEFRAM)
    /\ page(224).write = BankRef(bankTypeAux, bankSystemDEFROM)

----------------------------------------------------------------------------
(* C25: what GetBankAccess reports *)

\* the banks mmu.Init registers with a range of pages
RangedBanks == {b \in AllBanks : bankPages(b) # {}}

\* C25: for every bank, GetBankAccess includes read iff the read entry of every
\* page of the bank's range is this bank, and includes write iff the write
\* entry of every page of the range is this bank.
C25_BankAccess ==
    \A b \in RangedBanks :
        /\ read \in GetBankAccess(pages, b[2], b[1]) <=> servedBy(pages, b, {read})
        /\ write \in GetBankAccess(pages, b[2], b[1]) <=> servedBy(pages, b, {write})

----------------------------------------------------------------------------
(* C26: loads and stores of $C050..$C057 *)

\* the machine state after the step
StateNext ==
    [switches |-> switches', updates |-> updates', pages |-> pages',
     mainRAM |-> mainRAM', auxRAM |-> auxRAM', systemROM |-> systemROM',
     keydata |-> keydata', keydown |-> keydown', panic |-> panic']

\* the switch $C050+2k and $C051+2k turn off and on
displaySwitch(k) ==
    CASE k = 0 -> ioSwitchTEXT
      [] k = 1 -> ioSwitchMIXED
      [] k = 2 -> ioSwitchPAGE2
      [] k = 3 -> ioSwitchHIRES

\* the switch set sw with the switch of offset o ($50..$57) set to bit 0 of o
toggled(sw, o) ==
    IF o % 2 = 1
    THEN sw \cup {displaySwitch((o - 80) \div 2)}
    ELSE sw \ {displaySwitch((o - 80) \div 2)}

\* C26: for every offset o in $50..$57, a load and a store of $C000+o lead to
\* the same successor state, in which the switch named by o>>1 (TEXT, MIXED,
\* PAGE2, HIRES) equals bit 0 of o and no other switch differs; the load
\* returns $A0.
C26_C05xToggles ==
    [][\A o \in 80..87 :
          (hist'[1].addr = IOBase + o) =>
              /\ switches' = toggled(switches, o)
              /\ LoadByte(State, IOBase + o) = Result(StateNext, 160)
              /\ \A v \in SwitchVals : StoreByte(State, IOBase + o, v) = StateNext]_vars

\* PAGE2 has been turned on by a store, and $0800..$0BFF serve DisplayPage2
C26_Witness ==
    /\ Did("store", IOBase + 85)
    /\ last.v = 255
    /\ ioSwitchPAGE2 \in switches
    /\ page(8) = bothEntry(bankTypeMain, bankDisplayPage2)

----------------------------------------------------------------------------
(* C27: IOUDIS locks $C058..$C05F *)

\* the annunciator $C058+2k and $C059+2k turn off and on
annunciator(k) ==
    CASE k = 0 -> ioSwitchANNUNCIATOR0
      [] k = 1 -> ioSwitchANNUNCIATOR1
      [] k = 2 -> ioSwitchANNUNCIATOR2
      [] k = 3 -> ioSwitchANNUNCIATOR3

\* the switch set sw with switch x set to on
withSwitch(sw, x, on) == IF on THEN sw \cup {x} ELSE sw \ {x}

\* C27: with IOUDIS on, a load or store of $C058..$C05D changes no switch and
\* $C05E / $C05F set DHIRES on / off, leaving ANNUNCIATOR3 as it was; with
\* IOUDIS off, $C058..$C05F set ANNUNCIATOR0..3 off (even offset) or on (odd
\* offset) and leave DHIRES as it was.
C27_IOUDISLock ==
    [][\A o \in 88..95 :
          (hist'[1].addr = IOBase + o) =>
              switches' =
                  IF ioSwitchIOUDIS \in switches
                  THEN IF o < 94 THEN switches
                       ELSE withSwitch(switches, ioSwitchDHIRES, o = 94)
                  ELSE withSwitch(switches, annunciator((o - 88) \div 2), o % 2 = 1)]_vars

\* $C05E loaded with IOUDIS on: DHIRES is on, and ANNUNCIATOR3, turned on while
\* IOUDIS was off, is still on
C27_Witness ==
    /\ Did("load", IOBase + 94)
    /\ {ioSwitchIOUDIS, ioSwitchDHIRES, ioSwitchANNUNCIATOR3} \subseteq switches

----------------------------------------------------------------------------
(* C28: stores to $C070..$C07F *)

\* C28: a store to $C07E turns IOUDIS off and a store to $C07F turns it on,
\* whatever byte is stored; stores to $C070..$C07D change no switch; none of
\* these stores changes the page table.
C28_C07xWrite ==
    [][\A o \in 112..127 :
          (hist'[1].op = "store" /\ hist'[1].addr = IOBase + o) =>
              /\ pages' = pages
              /\ switches' =
                     IF o < 126 THEN switches
                     ELSE withSwitch(switches, ioSwitchIOUDIS, o = 127)]_vars

\* $C07E stored with a non-zero byte after DHIRES was turned on under IOUDIS:
\* IOUDIS is off again
C28_Witness ==
    /\ Did("store", IOBase + 126)
    /\ last.v = 255
    /\ ioSwitchIOUDIS \notin switches
    /\ ioSwitchDHIRES \in switches

----------------------------------------------------------------------------
(* C29: loads of $C010..$C01F *)

\* the byte x with bit 7 cleared
strobeOff(x) == IF x >= 128 THEN x - 128 ELSE x

----------------------------------------------------------------------------
(* C30: the undecoded offsets *)

\* C30: at every offset of $C020..$C04F, $C060..$C06F and $C090..$C0FF a load
\* returns 0 and a store does nothing; neither changes a switch, a page-table
\* entry or a memory byte, and the decode selects no handler outside the
\* nine-row handler table.
C30_UndecodedOffsets ==
    [][\A a \in AddrUndecoded :
          (hist'[1].addr = a) =>
              /\ hist'[1].ret = 0
              /\ ~panic'
              /\ UNCHANGED <<switches, updates, pages, mainRAM, auxRAM, systemROM,
                             keydata, keydown>>]_vars

\* $C0FF loaded with 80STORE and AUXRAMRD on and a byte stored in the text page
C30_Witness ==
    /\ Did("load", IOBase + 255)
    /\ last.ret = 0
    /\ {ioSwitch80STORE, ioSwitchAUXRAMRD} \subseteq switches
    /\ memGet(mainRAM, 1024) = 65
    /\ ~panic

----------------------------------------------------------------------------
(* C31: a reconfiguration stays within the group of the changed switches *)

\* the switches the step changes
changedSwitches == (switches' \ switches) \cup (switches \ switches')

\* the runs of pages, by their first page, whose entry the step changes
changedRuns == {p \in DOMAIN pages : pages'[p] # pages[p]}

\* the switches with no update group
NoGroupSwitches ==
    {ioSwitchALTCHARSET, ioSwitchTEXT, ioSwitchMIXED, ioSwitch80COL, ioSwitchDHIRES,
     ioSwitchIOUDIS, ioSwitchCXROM, ioSwitchC3ROM, ioSwitchVBLINT,
     ioSwitchANNUNCIATOR0, ioSwitchANNUNCIATOR1, ioSwitchANNUNCIATOR2,
     ioSwitchANNUNCIATOR3}

\* C31: an access that changes only ALTZP changes page-table entries only in
\* $00..$01; one that changes only LCRAMRD, LCRAMWRT or LCBANK2 only in
\* $D0..$FF; one that changes only 80STORE, PAGE2 or HIRES only in $02..$BF;
\* one that changes only switches without an update group changes none.
C31_GroupConfinement ==
    [][(changedSwitches # {}) =>
           /\ changedSwitches \subseteq {ioSwitchALTZP} => changedRuns \subseteq 0..1
           /\ changedSwitches \subseteq {ioSwitchLCRAMRD, ioSwitchLCRAMWRT, ioSwitchLCBANK2}
                  => changedRuns \subseteq 208..255
           /\ changedSwitches \subseteq {ioSwitch80STORE, ioSwitchPAGE2, ioSwitchHIRES}
                  => changedRuns \subseteq 2..191
           /\ changedSwitches \subseteq NoGroupSwitches => changedRuns = {}]_vars

\* TEXT was just turned on with ALTZP, PAGE2 and LCRAMRD on: every group has
\* been reconfigured before, and the table is as those switches left it
C31_Witness ==
    /\ Did("load", IOBase + 81)
    /\ {ioSwitchTEXT, ioSwitchALTZP, ioSwitchPAGE2, ioSwitchLCRAMRD} \subseteq switches
    /\ page(0).read = BankRef(bankTypeAux, bankZeroStackRAM)
    /\ page(8).read = BankRef(bankTypeMain, bankDisplayPage2)
    /\ page(224).read = BankRef(bankTypeMain, bankLangCardEFRAM)

----------------------------------------------------------------------------
(* C32: the language-card banks share no byte *)

\* the bytes backing bank b: the slice it was registered over
backing(b) == [ram |-> bankAt(b).ram, lo |-> bankAt(b).lo, hi |-> bankAt(b).lo + bankAt(b).len]

\* two slices share no byte: they are of different memories, or one ends before
\* the other begins
disjointSlices(s, t) == s.ram # t.ram \/ s.hi <= t.lo \/ t.hi <= s.lo

\* the language-card banks and MainRAM
IsolatedBanks == {bankLangCardDX1RAM, bankLangCardDX2RAM, bankLangCardEFRAM, bankMainRAM}

\* for each variant the four banks are backed by pairwise disjoint bytes
BackingDisjoint ==
    \A typ \in bankTypes : \A i, j \in IsolatedBanks :
        i # j => disjointSlices(backing(BankRef(typ, i)), backing(BankRef(typ, j)))

\* the indices of the slice mem and mem' differ at
changedBytes(old, new) ==
    {i \in DOMAIN old \cup DOMAIN new : memGet(old, i) # memGet(new, i)}

\* the Dx bank LCBANK2 does not select
otherDx == IF ioSwitchLCBANK2 \in switches THEN bankLangCardDX1RAM ELSE bankLangCardDX2RAM

\* C32: for each variant the bytes backing LangCardDX1RAM, LangCardDX2RAM,
\* LangCardEFRAM and MainRAM are pairwise disjoint; a store to $D000..$DFFF with
\* LCRAMWRT on changes no byte of the Dx bank LCBANK2 does not select, so the
\* byte read there once that bank is selected is the one it held; a load of
\* $D000..$DFFF with LCRAMRD on reads the selected Dx bank; and no store to
\* $D000..$FFFF changes a byte readable at $0200..$BFFF.
C32_LCBankIsolation ==
    /\ []BackingDisjoint
    /\ [][\A a \in AddrLCIsoMem :
             /\ (hist'[1].op = "store" /\ hist'[1].addr = a) =>
                    /\ \A typ \in bankTypes, x \in AddrLCIsoMem :
                           (x < 57344 /\ ioSwitchLCRAMWRT \in switches) =>
                               memGet(sliceOf(StateNext, BankRef(typ, otherDx)),
                                      indexIn(BankRef(typ, otherDx), x))
                                   = byteAt(BankRef(typ, otherDx), x)
                    /\ changedBytes(mainRAM, mainRAM') \cap 512..49151 = {}
                    /\ changedBytes(auxRAM, auxRAM') \cap 512..49151 = {}
             /\ (/\ hist'[1].op = "load" /\ hist'[1].addr = a /\ a < 57344
                 /\ ioSwitchLCRAMRD \in switches) =>
                    hist'[1].ret =
                        byteAt(BankRef(IF ioSwitchAUXRAMRD \in switches
                                       THEN bankTypeAux ELSE bankTypeMain,
                                       IF ioSwitchLCBANK2 \in switches
                                       THEN bankLangCardDX2RAM ELSE bankLangCardDX1RAM), a)]_vars

\* $D000 was stored in bank 2 (main); with bank 1 selected a load of $D000
\* returned 0, and bank 2 still holds the byte
C32_Witness ==
    /\ Did("load", 53248)
    /\ last.ret = 0
    /\ ioSwitchLCRAMRD \in switches
    /\ ioSwitchLCBANK2 \notin switches
    /\ ioSwitchAUXRAMRD \notin switches
    /\ byteAt(BankRef(bankTypeMain, bankLangCardDX2RAM), 53248) = 170
    /\ byteAt(BankRef(bankTypeMain, bankLangCardDX1RAM), 53248) = 0

----------------------------------------------------------------------------
(* C33: $C000..$CFFF is never remapped *)

\* C33: in every state reached by CPU loads and stores, page $C0 has IOSwitches
\* as read and write entry, and every page $C1..$CF has SystemCXROM as read
\* entry and no write entry.
C33_IOWindowFixed ==
    /\ page(192) = bothEntry(bankTypeMain, bankIOSwitches)
    /\ \A p \in 193..207 :
           page(p) = [read |-> BankRef(bankTypeMain, bankSystemCXROM), write |-> nilBank]

\* CXROM and C3ROM are on, and so are the switches of all three update groups
C33_Witness ==
    /\ {ioSwitchCXROM, ioSwitchC3ROM, ioSwitchAUXRAMRD, ioSwitchAUXRAMWRT,
        ioSwitch80STORE, ioSwitchALTZP} \subseteq switches
    /\ page(193).read = BankRef(bankTypeMain, bankSystemCXROM)
    /\ page(191).read = BankRef(bankTypeAux, bankMainRAM)

----------------------------------------------------------------------------
(* C34: the page table as a function of the switches alone *)

\* the update groups of the switches in which two switch sets differ
groupsOf(old, new) ==
    UNION {switchUpdates(sw) : sw \in (old \ new) \cup (new \ old)}

\* the update groups changed by the operations ops run from state st
RECURSIVE groupsChanged(_, _)
groupsChanged(st, ops) ==
    IF ops = <<>>
    THEN {}
    ELSE LET nxt == applyOp(st, Head(ops))
         IN  groupsOf(st.switches, nxt.switches) \cup groupsChanged(nxt, Tail(ops))

\* every sequence of three of the operations of the runs
OrderRuns ==
    [1..3 -> {StoreOp(a, 0) : a \in AddrOrderStore} \cup {LoadOp(a) : a \in AddrOrderLoad}]

AllGroups == {updateSystemRAM, updateZPSRAM, updateLCRAM}

\* C34: two states reached from construction by CPU loads and stores, each by
\* a run that changes a switch of every update group, have equal page tables
\* if their switches are equal.
C34_PagesBySwitches ==
    (groupsChanged(InitState, hist) = AllGroups) =>
        \A q \in OrderRuns :
            LET other == replay(InitState, q)
            IN  (groupsChanged(InitState, q) = AllGroups /\ other.switches = switches)
                    => other.pages = pages

----------------------------------------------------------------------------
(* C35: no access outside a bank, no dispatch without an accessor *)

\* every page at its first byte, its next-to-last byte and its last byte: the
\* offsets of a page's bytes lie between those of its first and last, and the
\* high byte of a word is taken from the next offset or from the page's first
RangeProbes == {(256 * p) + o : p \in 0..255, o \in {0, 254, 255}}

\* an access at address a through the page entry e reaches an accessor, and
\* the offsets it passes for a byte and for the high byte of a word are within
\* the bank
dispatchInRange(e, a) ==
    e # nilBank =>
        /\ bankAt(e).accessor # "nil"
        /\ u16(a - bankAt(e).baseAddr) < bankAt(e).size
        /\ hiAddr(u16(a - bankAt(e).baseAddr)) < bankAt(e).size

\* the banks whose accessor reads or writes bytes of memory
isMemory(e) == e # nilBank /\ bankAt(e).ram # "nil"

\* C35 (range): in every state reached by CPU loads and stores no access has
\* left a bank's bytes or met a missing accessor, and at every address the
\* read entry and the write entry of the page have an accessor and get offsets
\* o with 0 <= o < bank.size, the offset of a word's high byte included.
C35_InRange ==
    /\ ~panic
    /\ \A a \in RangeProbes :
           /\ dispatchInRange(page(a \div 256).read, a)
           /\ dispatchInRange(page(a \div 256).write, a)

\* C35 (groups of bytes): byte i of load_bytes(a, ..) and of store_bytes(a, ..)
\* is the byte at address (a + i) mod 2^16.
C35_BytesWrap ==
    \A a \in AddrRange :
        (hist' # <<>> /\ hist'[1].addr = a) =>
            /\ hist'[1].op = "loadbytes" =>
                   \A i \in 1..hist'[1].v :
                       LET t == (a + i - 1) % 65536
                           e == page(t \div 256).read
                       IN  isMemory(e) => hist'[1].ret[i] = byteAt(e, t)
            /\ hist'[1].op = "storebytes" =>
                   \A i \in 1..Len(hist'[1].v) :
                       LET t == (a + i - 1) % 65536
                           e == page(t \div 256).write
                       IN  isRAM(e) =>
                               memGet(sliceOf(StateNext, e), indexIn(e, t)) = hist'[1].v[i]

\* C35: no out-of-range access and no missing accessor in any reachable state,
\* and the addresses of load_bytes and store_bytes wrap modulo 2^16.
C35_NoOutOfRange == []C35_InRange /\ [][C35_BytesWrap]_vars

\* $34, $12 have been stored as a group at $FFFF with ALTZP on: $12 is at $0000
\* through ZeroStackRAM (aux)
C35_Witness ==
    /\ hist # <<>>
    /\ hist[1].op = "storebytes"
    /\ hist[1].addr = 65535
    /\ page(0).write = BankRef(bankTypeAux, bankZeroStackRAM)
    /\ memGet(sliceOf(State, page(0).write), indexIn(page(0).write, 0)) = 18

====
